---- MODULE Spec2Model ----
(***************************************************************************)
(* A model of the read-only FAT driver src/fs/fat.c (GRUB 2).              *)
(*                                                                         *)
(* The driver's five operations (open, read, close, dir, label) are the    *)
(* actions; each action is the whole handler, computed by operators that   *)
(* follow the C code statement by statement.  The disk is a byte-exact     *)
(* image for the FATs and the 32-byte directory records; the boot sector   *)
(* is delivered as the record of its fields; file contents are identified  *)
(* by the disk bytes delivered (extents <<sector, offset, size>>).         *)
(*                                                                         *)
(* Word widths.  The driver is built for ILP32 (i386-pc): unsigned long    *)
(* and grub_uint32_t are 32 bits, so ~0UL stored in a grub_uint32_t        *)
(* compares equal to ~0UL.  TLC integers are 32-bit signed, so a           *)
(* grub_uint32_t is held as its two's complement value in                  *)
(* -2^31 .. 2^31-1 (0xFFFFFFFF is -1); Add32, Sub32, Shl32, Shr32 and ULt  *)
(* are the unsigned 32-bit operations on that representation.              *)
(***************************************************************************)
EXTENDS Integers, Sequences, FiniteSets, TLC

(***************************************************************************)
(* Program constants.                                                      *)
(***************************************************************************)
GRUB_DISK_SECTOR_BITS == 9
GRUB_FAT_DIR_ENTRY_SIZE == 32
GRUB_FAT_ATTR_VOLUME_ID == 8
GRUB_FAT_ATTR_DIRECTORY == 16
GRUB_FAT_ATTR_LONG_NAME == 15
GRUB_FAT_ATTR_VALID == 55

NULL == "NULL"
\* the null struct grub_fat_data pointer
NoData == [null |-> TRUE]
GRUB_ERR_NONE == "GRUB_ERR_NONE"
GRUB_ERR_BAD_FS == "GRUB_ERR_BAD_FS"
GRUB_ERR_BAD_FILE_TYPE == "GRUB_ERR_BAD_FILE_TYPE"
GRUB_ERR_FILE_NOT_FOUND == "GRUB_ERR_FILE_NOT_FOUND"
\* The block device's own error kinds (set by grub_disk_read).
GRUB_ERR_READ_ERROR == "GRUB_ERR_READ_ERROR"
GRUB_ERR_OUT_OF_RANGE == "GRUB_ERR_OUT_OF_RANGE"

(***************************************************************************)
(* Bounds of the model.                                                    *)
(***************************************************************************)
\* A device read fault is injected at the k-th device read of an
\* operation, k in 1..MaxFailAt (0: no fault).
MaxFailAt == 4
\* The listing hook answers "stop" at its k-th call, k in 1..MaxStopAt
\* (0: never).
MaxStopAt == 2
\* Volume handles that may be live at once (caps the leak counter).
MaxLive == 2

(***************************************************************************)
(* 32-bit unsigned arithmetic on the two's complement representation.      *)
(***************************************************************************)
Lo16(x) == x % 65536
Hi16(x) == (x \div 65536) % 65536
Mk32(hi, lo) == IF hi >= 32768 THEN (hi - 65536) * 65536 + lo
                ELSE hi * 65536 + lo
Add32(a, b) ==
  LET lo == Lo16(a) + Lo16(b)
      hi == Hi16(a) + Hi16(b) + (lo \div 65536)
  IN  Mk32(hi % 65536, lo % 65536)
Not32(a) == (-1) - a
Sub32(a, b) == Add32(a, Add32(Not32(b), 1))
RECURSIVE Shl32(_, _)
\* a << n; a zero stays zero however far it is shifted
Shl32(a, n) == IF n = 0 \/ a = 0 THEN a ELSE Shl32(Add32(a, a), n - 1)
Shr32(a, n) ==
  IF n = 0 THEN a
  ELSE IF n >= 32 THEN 0
  ELSE IF a >= 0 THEN a \div (2 ^ n)
  ELSE ((a \div (2 ^ n)) + 2 ^ (31 - n)) + 2 ^ (31 - n)
RECURSIVE Mul32(_, _)
\* k * a modulo 2^32, for a small multiplier k >= 0
Mul32(k, a) == IF k = 0 THEN 0 ELSE Add32(a, Mul32(k - 1, a))
ULt(a, b) == IF (a < 0) = (b < 0) THEN a < b ELSE b < 0
ULe(a, b) == a = b \/ ULt(a, b)
\* (x & m) != 0 for a single-bit mask m, x >= 0
HasBit(x, m) == (x \div m) % 2 = 1
\* x truncated to grub_uint16_t
Trunc16(x) == Lo16(x)

(***************************************************************************)
(* Little-endian decoding of on-disk bytes (grub_le_to_cpu16/32).          *)
(***************************************************************************)
LE16(b, i) == b[i] + 256 * b[i + 1]
LE32(b, i) == Mk32(LE16(b, i + 2), LE16(b, i))

(***************************************************************************)
(* The formatter: how the disk images of the model are laid out on disk.   *)
(* None of this is driver code; it produces the bytes the driver reads.    *)
(***************************************************************************)
Pad(s, n) == s \o [i \in 1..(n - Len(s)) |-> 32]
Name83(base, ext) == Pad(base, 8) \o Pad(ext, 3)
Bytes16(v) == <<v % 256, (v \div 256) % 256>>
Bytes32(v) == Bytes16(Lo16(v)) \o Bytes16(Hi16(v))
Zeros(n) == [i \in 1..n |-> 0]

\* A short (8.3) directory record, struct grub_fat_dir_entry.
ShortEntry(name, attr, cluster, size) ==
  name \o <<attr, 0, 0>> \o Zeros(6)
       \o Bytes16(Hi16(cluster)) \o Zeros(4)
       \o Bytes16(Lo16(cluster)) \o Bytes32(size)

RECURSIVE Units(_)
Units(us) == IF us = <<>> THEN <<>> ELSE Bytes16(Head(us)) \o Units(Tail(us))

\* A long-name slot, struct grub_fat_long_name_entry; us holds 13 units.
LfnEntry(id, checksum, us) ==
  <<id>> \o Units(SubSeq(us, 1, 5)) \o <<GRUB_FAT_ATTR_LONG_NAME, 0, checksum>>
         \o Units(SubSeq(us, 6, 11)) \o <<0, 0>> \o Units(SubSeq(us, 12, 13))

\* The 13 code units of one slot: the text, a 0x0000 terminator, 0xFFFF fill.
LfnUnits(text) ==
  LET t == IF Len(text) < 13 THEN text \o <<0>> ELSE text
  IN  t \o [i \in 1..(13 - Len(t)) |-> 65535]

\* The checksum of an 11-byte short name, as the formatter computes it.
RECURSIVE FmtSum(_, _)
FmtSum(name, s) ==
  IF name = <<>> THEN s
  ELSE FmtSum(Tail(name), ((s \div 2) + (s % 2) * 128 + Head(name)) % 256)

FatVal(vals, c) == IF c \in DOMAIN vals THEN vals[c] ELSE 0

\* Byte off of a FAT whose entries are vals, in the given width.
FatByte(bits, vals, off) ==
  IF bits = 12 THEN
    LET e0 == FatVal(vals, 2 * (off \div 3))
        e1 == FatVal(vals, 2 * (off \div 3) + 1)
    IN  CASE off % 3 = 0 -> e0 % 256
          [] off % 3 = 1 -> (e0 \div 256) + (e1 % 16) * 16
          [] OTHER -> e1 \div 16
  ELSE IF bits = 16 THEN
    Bytes16(FatVal(vals, off \div 2))[(off % 2) + 1]
  ELSE
    Bytes32(FatVal(vals, off \div 4))[(off % 4) + 1]

(***************************************************************************)
(* The disk images.  Every good image holds the same tree:                 *)
(*   /            VOL (label; the FAT16 image has a deleted record in its  *)
(*                place), a deleted record, HI.T (6 bytes, cluster         *)
(*                12), "Ab" (long name, short AB~1, 1100 bytes, chain      *)
(*                3 -> 5 -> 4), D (directory, chain 6 -> 7), K (chain      *)
(*                8 -> 9 -> FAT value 0), L (chain 10 -> FAT value         *)
(*                num_clusters), Z (empty file, first cluster 0), R (100   *)
(*                bytes, first cluster 0xFFFFFFFF)                         *)
(*   /D           ".", ".." (first cluster 0: the root), 14 deleted        *)
(*                records, X (10 bytes, cluster 11; its record is the      *)
(*                first of D's second cluster)                             *)
(***************************************************************************)
\* The 11-byte names of the tree's records
TreeNames ==
  [ AB_1 |-> Name83(<<65, 66, 126, 49>>, <<>>),
    D |-> Name83(<<68>>, <<>>),
    X |-> Name83(<<88>>, <<>>),
    Dot |-> Name83(<<46>>, <<>>),
    DotDot |-> Name83(<<46, 46>>, <<>>),
    Deleted |-> <<229>> \o Pad(<<>>, 10) ]

ATTR_ARCHIVE == 32

\* first is the root's first record: the label, or something else
RootEntries(first) ==
  << first,
     ShortEntry(TreeNames.Deleted, ATTR_ARCHIVE, 13, 5),
     \* HI.T
     ShortEntry(Name83(<<72, 73>>, <<84>>), ATTR_ARCHIVE, 12, 6),
     \* the long name "Ab" of AB~1
     LfnEntry(65, FmtSum(TreeNames.AB_1, 0), LfnUnits(<<65, 98>>)),
     ShortEntry(TreeNames.AB_1, ATTR_ARCHIVE, 3, 1100),
     ShortEntry(TreeNames.D, GRUB_FAT_ATTR_DIRECTORY, 6, 0),
     \* K, L, Z, R
     ShortEntry(Name83(<<75>>, <<>>), ATTR_ARCHIVE, 8, 2000),
     ShortEntry(Name83(<<76>>, <<>>), ATTR_ARCHIVE, 10, 2000),
     ShortEntry(Name83(<<90>>, <<>>), ATTR_ARCHIVE, 0, 0),
     ShortEntry(Name83(<<82>>, <<>>), ATTR_ARCHIVE, -1, 100) >>

\* the label VOL
LabelEntry ==
  ShortEntry(Name83(<<86, 79, 76>>, <<>>), GRUB_FAT_ATTR_VOLUME_ID, 0, 0)
DeletedEntry == ShortEntry(TreeNames.Deleted, ATTR_ARCHIVE, 0, 0)

DEntries1 ==
  << ShortEntry(TreeNames.Dot, GRUB_FAT_ATTR_DIRECTORY, 6, 0),
     ShortEntry(TreeNames.DotDot, GRUB_FAT_ATTR_DIRECTORY, 0, 0) >>
  \o [i \in 1..14 |-> DeletedEntry]
DEntries2 == << ShortEntry(TreeNames.X, ATTR_ARCHIVE, 11, 10) >>

\* The FAT of the tree: id is entry 0, eoc the end-of-chain value, bad a
\* value >= num_clusters and below the end-of-chain marks.
TreeFat(id, eoc, bad) ==
  (0 :> id) @@ (1 :> eoc) @@ (3 :> 5) @@ (5 :> 4) @@ (4 :> eoc)
  @@ (6 :> 7) @@ (7 :> eoc) @@ (8 :> 9) @@ (9 :> 0) @@ (10 :> bad)
  @@ (11 :> eoc) @@ (12 :> eoc)

BPB(bps, spc, reserved, nfats, rootents, total16, spf16, spf32, flags, rootclus) ==
  [ bytes_per_sector |-> bps, sectors_per_cluster |-> spc,
    num_reserved_sectors |-> reserved, num_fats |-> nfats,
    num_root_entries |-> rootents, num_total_sectors_16 |-> total16,
    media |-> 248, sectors_per_fat_16 |-> spf16,
    num_total_sectors_32 |-> 0, sectors_per_fat_32 |-> spf32,
    extended_flags |-> flags, fs_version |-> 0, root_cluster |-> rootclus ]

\* at: byte address; len: bytes; the truth fields (nc, eof, cluster_at,
\* cluster_bytes) are the formatter's own layout, not the driver's.
Fat12Image ==
  LET vals == TreeFat(4088, 4095, 37)
  IN  [ name |-> "fat12", disk_sectors |-> 40,
        bpb |-> BPB(512, 1, 1, 2, 32, 40, 1, 0, 0, 0),
        fats |-> << [at |-> 512, len |-> 512, bits |-> 12, vals |-> vals],
                    [at |-> 1024, len |-> 512, bits |-> 12, vals |-> vals] >>,
        dirs |-> << [at |-> 1536, entries |-> RootEntries(LabelEntry)],
                    [at |-> 2560 + 4 * 512, entries |-> DEntries1],
                    [at |-> 2560 + 5 * 512, entries |-> DEntries2] >>,
        vals |-> vals, nc |-> 37, eof |-> 4088,
        cluster_at |-> 2560, cluster_bytes |-> 512, root |-> -1 ]

Fat16Image ==
  LET vals == TreeFat(65528, 65535, 4165)
  IN  [ name |-> "fat16", disk_sectors |-> 4200,
        bpb |-> BPB(512, 1, 1, 2, 32, 4200, 17, 0, 0, 0),
        fats |-> << [at |-> 512, len |-> 17 * 512, bits |-> 16, vals |-> vals],
                    [at |-> 18 * 512, len |-> 17 * 512, bits |-> 16,
                     vals |-> vals] >>,
        dirs |-> << [at |-> 35 * 512, entries |-> RootEntries(DeletedEntry)],
                    [at |-> 37 * 512 + 4 * 512, entries |-> DEntries1],
                    [at |-> 37 * 512 + 5 * 512, entries |-> DEntries2] >>,
        vals |-> vals, nc |-> 4165, eof |-> 65528,
        cluster_at |-> 37 * 512, cluster_bytes |-> 512, root |-> -1 ]

Fat32Image ==
  LET vals == TreeFat(268435448, 268435455, 39) @@ (2 :> 268435455)
  IN  [ name |-> "fat32", disk_sectors |-> 40,
        bpb |-> BPB(512, 1, 1, 2, 0, 40, 0, 1, 0, 2),
        fats |-> << [at |-> 512, len |-> 512, bits |-> 32, vals |-> vals],
                    [at |-> 1024, len |-> 512, bits |-> 32, vals |-> vals] >>,
        dirs |-> << [at |-> 1536, entries |-> RootEntries(LabelEntry)],
                    [at |-> 1536 + 4 * 512, entries |-> DEntries1],
                    [at |-> 1536 + 5 * 512, entries |-> DEntries2] >>,
        vals |-> vals, nc |-> 39, eof |-> 268435448,
        cluster_at |-> 1536, cluster_bytes |-> 512, root |-> 2 ]

\* A volume that must not mount: bytes_per_sector = 513.
BadImage ==
  [ Fat12Image EXCEPT !.name = "bad",
                      !.bpb = BPB(513, 1, 1, 2, 32, 40, 1, 0, 0, 0) ]

\* The image base with another name and boot sector.
Reformatted(base, name, bpb) == [base EXCEPT !.name = name, !.bpb = bpb]

\* More volumes that must not mount, each with one field out of order:
\* a sector smaller than 512 bytes, a cluster of 3 sectors and of 0, no
\* FAT, a FAT of no sectors, a volume that ends where its first cluster
\* would begin, a FAT32 volume with a fixed root directory and one of
\* version 1, and a FAT whose entry 0 is not the media byte.
BadImages ==
  { BadImage,
    Reformatted(Fat12Image, "bps256", BPB(256, 1, 1, 2, 32, 40, 1, 0, 0, 0)),
    Reformatted(Fat12Image, "spc3", BPB(512, 3, 1, 2, 32, 40, 1, 0, 0, 0)),
    Reformatted(Fat12Image, "spc0", BPB(512, 0, 1, 2, 32, 40, 1, 0, 0, 0)),
    Reformatted(Fat12Image, "nofat", BPB(512, 1, 1, 0, 32, 40, 1, 0, 0, 0)),
    Reformatted(Fat32Image, "spf0", BPB(512, 1, 1, 2, 0, 40, 0, 0, 0, 2)),
    Reformatted(Fat12Image, "tiny", BPB(512, 1, 1, 2, 32, 5, 1, 0, 0, 0)),
    Reformatted(Fat32Image, "root32", BPB(512, 1, 1, 2, 32, 40, 0, 1, 0, 2)),
    Reformatted(Fat32Image, "ver32",
                [BPB(512, 1, 1, 2, 0, 40, 0, 1, 0, 2) EXCEPT !.fs_version = 1]),
    [ Fat12Image EXCEPT
        !.name = "fatid",
        !.fats = << [at |-> 512, len |-> 512, bits |-> 12,
                     vals |-> TreeFat(4089, 4095, 37)],
                    [at |-> 1024, len |-> 512, bits |-> 12,
                     vals |-> TreeFat(4089, 4095, 37)] >> ] }

\* A volume of 3 sectors whose boot sector places the first cluster at
\* sector 5, past its end (clusters of 2 sectors): it holds no cluster.
WrapImage ==
  LET vals == (0 :> 65528) @@ (1 :> 65535)
  IN  [ name |-> "wrap", disk_sectors |-> 40,
        bpb |-> BPB(512, 2, 1, 2, 32, 3, 1, 0, 0, 0),
        fats |-> << [at |-> 512, len |-> 512, bits |-> 16, vals |-> vals],
                    [at |-> 1024, len |-> 512, bits |-> 16, vals |-> vals] >>,
        dirs |-> << >>,
        vals |-> vals, nc |-> 2, eof |-> 65528,
        cluster_at |-> 5 * 512, cluster_bytes |-> 1024, root |-> -1 ]

\* A FAT32 volume with FATs of 65536 sectors whose active FAT is the
\* second one (extended_flags = 0x81), at sector 65537.  The root
\* directory (chain 2 -> 3) holds 16 deleted records and then X.
BigImage ==
  LET vals == (0 :> 268435448) @@ (1 :> 268435455) @@ (2 :> 3)
              @@ (3 :> 268435455) @@ (11 :> 268435455)
  IN  [ name |-> "big", disk_sectors |-> 131113,
        bpb |-> [ BPB(512, 1, 1, 2, 0, 0, 0, 65536, 129, 2)
                    EXCEPT !.num_total_sectors_32 = 131113 ],
        fats |-> << [at |-> 512, len |-> 65536 * 512, bits |-> 32,
                     vals |-> vals],
                    [at |-> 65537 * 512, len |-> 65536 * 512, bits |-> 32,
                     vals |-> vals] >>,
        dirs |-> << [at |-> 131073 * 512,
                     entries |-> [i \in 1..16 |-> DeletedEntry]],
                    [at |-> 131074 * 512, entries |-> DEntries2] >>,
        vals |-> vals, nc |-> 42, eof |-> 268435448,
        cluster_at |-> 131073 * 512, cluster_bytes |-> 512, root |-> 2 ]

\* A FAT12 volume with sectors of 1024 bytes and clusters of 2 sectors
\* (2048 bytes): the FATs at byte 1024 and 2048, the root directory at
\* 3072, cluster 2 at 4096.  It holds directories only: / holds D
\* (cluster 3), and D holds ".", ".." and X.
Sector1kImage ==
  LET vals == (0 :> 4088) @@ (1 :> 4095) @@ (3 :> 4095) @@ (5 :> 4095)
  IN  [ name |-> "ls1k", disk_sectors |-> 80,
        bpb |-> BPB(1024, 2, 1, 2, 32, 40, 1, 0, 0, 0),
        fats |-> << [at |-> 1024, len |-> 1024, bits |-> 12, vals |-> vals],
                    [at |-> 2048, len |-> 1024, bits |-> 12, vals |-> vals] >>,
        dirs |-> << [at |-> 3072,
                     entries |->
                       << ShortEntry(TreeNames.D, GRUB_FAT_ATTR_DIRECTORY, 3, 0) >>],
                    [at |-> 4096 + 2048,
                     entries |->
                       << ShortEntry(TreeNames.Dot, GRUB_FAT_ATTR_DIRECTORY, 3, 0),
                          ShortEntry(TreeNames.DotDot, GRUB_FAT_ATTR_DIRECTORY, 0, 0),
                          ShortEntry(TreeNames.X, GRUB_FAT_ATTR_DIRECTORY, 5, 0) >>] >>,
        vals |-> vals, nc |-> 20, eof |-> 4088,
        cluster_at |-> 4096, cluster_bytes |-> 2048, root |-> -1 ]

\* The FAT32 volume with the upper four bits of an entry set: D's chain
\* 6 -> 7 is stored as 0xF0000007.  The root holds the label and D.
HighBitsImage ==
  LET vals == (0 :> 268435448) @@ (1 :> 268435455) @@ (2 :> 268435455)
              @@ (6 :> Mk32(61440, 7)) @@ (7 :> 268435455)
              @@ (11 :> 268435455)
  IN  [ Fat32Image EXCEPT
          !.name = "hi32",
          !.fats = << [at |-> 512, len |-> 512, bits |-> 32, vals |-> vals],
                      [at |-> 1024, len |-> 512, bits |-> 32,
                       vals |-> vals] >>,
          !.dirs = << [at |-> 1536,
                       entries |->
                         << LabelEntry,
                            ShortEntry(TreeNames.D, GRUB_FAT_ATTR_DIRECTORY, 6, 0) >>],
                      [at |-> 1536 + 4 * 512, entries |-> DEntries1],
                      [at |-> 1536 + 5 * 512, entries |->
                         << ShortEntry(TreeNames.X, GRUB_FAT_ATTR_DIRECTORY, 11, 0) >>]
                   >>,
          !.vals = vals ]

\* A FAT12 volume whose root directory holds long-name groups, well
\* formed and not; sum is the checksum of the short name that follows.
\*   ABCDEF~1  slots 0x42, 1 with its checksum: "Abcdefghijklmn"
\*   BAD~1     slots 0x42, 1, the second with another checksum
\*   ORD~1     slots 0x42, 2: out of order
\*   MID, INT~1  slot 0x42 of INT~1, the record of MID, slot 1 of INT~1
\*   ORPH~1    slot 1 alone, no start marker
\*   ZERO~1    slot 0x40: a group of no slots
\*   DEL~1     slot 0x41, a deleted record, then DEL~1: "De"
\*   SUM~1     slot 0x41 with the checksum of another name
\*   RE~1      slot 0x42, then slot 0x41 starting again: "Re"
LfnNames ==
  [ ABCDEF_1 |-> Name83(<<65, 66, 67, 68, 69, 70, 126, 49>>, <<>>),
    BAD_1 |-> Name83(<<66, 65, 68, 126, 49>>, <<>>),
    ORD_1 |-> Name83(<<79, 82, 68, 126, 49>>, <<>>),
    MID |-> Name83(<<77, 73, 68>>, <<>>),
    INT_1 |-> Name83(<<73, 78, 84, 126, 49>>, <<>>),
    ORPH_1 |-> Name83(<<79, 82, 80, 72, 126, 49>>, <<>>),
    ZERO_1 |-> Name83(<<90, 69, 82, 79, 126, 49>>, <<>>),
    DEL_1 |-> Name83(<<68, 69, 76, 126, 49>>, <<>>),
    SUM_1 |-> Name83(<<83, 85, 77, 126, 49>>, <<>>),
    RE_1 |-> Name83(<<82, 69, 126, 49>>, <<>>) ]

\* "Abcdefghijklm", the 13 units of a full slot
uFull == <<65>> \o [i \in 1..12 |-> 97 + i]

LfnEntries ==
  << LfnEntry(66, FmtSum(LfnNames.ABCDEF_1, 0), LfnUnits(<<110>>)),
     LfnEntry(1, FmtSum(LfnNames.ABCDEF_1, 0), uFull),
     ShortEntry(LfnNames.ABCDEF_1, ATTR_ARCHIVE, 3, 0),
     LfnEntry(66, FmtSum(LfnNames.BAD_1, 0), LfnUnits(<<110>>)),
     LfnEntry(1, (FmtSum(LfnNames.BAD_1, 0) + 1) % 256, uFull),
     ShortEntry(LfnNames.BAD_1, ATTR_ARCHIVE, 3, 0),
     LfnEntry(66, FmtSum(LfnNames.ORD_1, 0), LfnUnits(<<110>>)),
     LfnEntry(2, FmtSum(LfnNames.ORD_1, 0), uFull),
     ShortEntry(LfnNames.ORD_1, ATTR_ARCHIVE, 3, 0),
     LfnEntry(66, FmtSum(LfnNames.INT_1, 0), LfnUnits(<<111>>)),
     ShortEntry(LfnNames.MID, ATTR_ARCHIVE, 3, 0),
     LfnEntry(1, FmtSum(LfnNames.INT_1, 0), uFull),
     ShortEntry(LfnNames.INT_1, ATTR_ARCHIVE, 3, 0),
     LfnEntry(1, FmtSum(LfnNames.ORPH_1, 0), LfnUnits(<<79>>)),
     ShortEntry(LfnNames.ORPH_1, ATTR_ARCHIVE, 3, 0),
     LfnEntry(64, FmtSum(LfnNames.ZERO_1, 0), LfnUnits(<<90>>)),
     ShortEntry(LfnNames.ZERO_1, ATTR_ARCHIVE, 3, 0),
     LfnEntry(65, FmtSum(LfnNames.DEL_1, 0), LfnUnits(<<68, 101>>)),
     DeletedEntry,
     ShortEntry(LfnNames.DEL_1, ATTR_ARCHIVE, 3, 0),
     LfnEntry(65, FmtSum(TreeNames.AB_1, 0), LfnUnits(<<83>>)),
     ShortEntry(LfnNames.SUM_1, ATTR_ARCHIVE, 3, 0),
     LfnEntry(66, FmtSum(LfnNames.RE_1, 0), LfnUnits(<<120>>)),
     LfnEntry(65, FmtSum(LfnNames.RE_1, 0), LfnUnits(<<82, 101>>)),
     ShortEntry(LfnNames.RE_1, ATTR_ARCHIVE, 3, 0) >>

\* A volume whose root directory holds the records from..to of LfnEntries.
LfnImage(name, from, to) ==
  [ Fat12Image EXCEPT
      !.name = name,
      !.dirs = << [at |-> 1536,
                   entries |-> SubSeq(LfnEntries, from, to)] >> ]

\* ABCDEF~1, BAD~1, ORD~1; MID, INT~1, ORPH~1, ZERO~1; DEL~1, SUM~1, RE~1
LfnImages ==
  { LfnImage("lfn1", 1, 9), LfnImage("lfn2", 10, 17),
    LfnImage("lfn3", 18, 25) }

Images ==
  {Fat12Image, Fat16Image, Fat32Image} \cup BadImages
  \cup {WrapImage, BigImage, Sector1kImage, HighBitsImage} \cup LfnImages
Disk(name) == CHOOSE i \in Images : i.name = name

\* The byte at byte address abs of the image (0 where nothing is stored).
DiskByte(img, abs) ==
  LET fs == {i \in DOMAIN img.fats :
               abs >= img.fats[i].at /\ abs < img.fats[i].at + img.fats[i].len}
      ds == {i \in DOMAIN img.dirs :
               abs >= img.dirs[i].at
               /\ abs < img.dirs[i].at + 32 * Len(img.dirs[i].entries)}
  IN  IF fs # {} THEN
        LET f == img.fats[CHOOSE i \in fs : TRUE]
        IN  FatByte(f.bits, f.vals, abs - f.at)
      ELSE IF ds # {} THEN
        LET d == img.dirs[CHOOSE i \in ds : TRUE]
        IN  d.entries[((abs - d.at) \div 32) + 1][((abs - d.at) % 32) + 1]
      ELSE 0

\* The n bytes at abs; bytes that lie in one directory record are taken
\* from it at once.
DiskBytes(img, abs, n) ==
  LET ds == {i \in DOMAIN img.dirs :
               /\ abs >= img.dirs[i].at
               /\ abs < img.dirs[i].at + 32 * Len(img.dirs[i].entries)
               /\ ((abs - img.dirs[i].at) % 32) + n <= 32}
  IN  IF ds # {} THEN
        LET d == img.dirs[CHOOSE i \in ds : TRUE]
            o == (abs - d.at) % 32
        IN  SubSeq(d.entries[((abs - d.at) \div 32) + 1], o + 1, o + n)
      ELSE [i \in 1..n |-> DiskByte(img, abs + i - 1)]

(***************************************************************************)
(* The machine state threaded through one operation:                       *)
(*   failAt, stopAt  the inputs of the run (device fault, hook's answer)   *)
(*   n               device reads issued so far                            *)
(*   log             the device reads, each with the disk's read_hook      *)
(*                   field as it was when the read was issued              *)
(*   read_hook       disk->read_hook                                       *)
(*   errno           grub_errno                                            *)
(*   errargs         the arguments formatted into the error message        *)
(*   calls           the calls of the listing hook: name, dir flag, answer *)
(*   live            grub_fat_data blocks allocated and not freed          *)
(*   refs            references held on my_mod                             *)
(*   bufs            the blocks grub_fat_find_dir allocated in this        *)
(*                   operation and has not freed, counted by the variable  *)
(*                   that holds them (dirname, filename, unibuf)           *)
(* and, as a record of what the operation did:                             *)
(*   mounted         the handle grub_fat_mount returned (NoData: none)     *)
(*   walked          the FAT entries the chain walker decoded: the cursor  *)
(*                   (cluster, num) it stood on and the value it got       *)
(*   steps           the handle as each grub_fat_find_dir left it          *)
(*   produced        the long names the scanner took from unibuf, each     *)
(*                   with the short record and the slots accepted for it   *)
(***************************************************************************)
Machine(failAt, stopAt, live, refs) ==
  [ failAt |-> failAt, stopAt |-> stopAt, n |-> 0, log |-> <<>>,
    read_hook |-> NULL, errno |-> GRUB_ERR_NONE, errargs |-> <<>>,
    calls |-> <<>>, live |-> live, refs |-> refs,
    bufs |-> [dirname |-> 0, filename |-> 0, unibuf |-> 0],
    mounted |-> NoData, walked |-> <<>>, steps |-> <<>>,
    produced |-> <<>> ]

\* grub_error (kind, ...)
grub_error(m, kind) == [m EXCEPT !.errno = kind]

\* The block device: grub_disk_read (disk, sector, offset, size, buf).
\* The read fails with the device's error when the fault is injected or
\* the bytes lie outside the disk; what it delivers is DiskBytes.
InRange(img, sector, offset, size) ==
  /\ sector >= 0 /\ offset >= 0 /\ size >= 0
  /\ sector < img.disk_sectors
  /\ offset < img.disk_sectors * 512
  /\ sector * 512 + offset + size <= img.disk_sectors * 512

grub_disk_read(img, m, sector, offset, size, kind, cluster) ==
  LET n == m.n + 1
      ok == n # m.failAt /\ InRange(img, sector, offset, size)
  IN  [ m EXCEPT
          !.n = n,
          !.log = Append(@, [ kind |-> kind, cluster |-> cluster,
                              sector |-> sector, offset |-> offset,
                              size |-> size, hook |-> m.read_hook,
                              ok |-> ok ]),
          !.errno = IF ok THEN @
                    ELSE IF n = m.failAt THEN GRUB_ERR_READ_ERROR
                    ELSE GRUB_ERR_OUT_OF_RANGE ]

\* Whether the device read just issued succeeded (grub_disk_read returned 0).
ReadOk(m) == m.log[Len(m.log)].ok

(***************************************************************************)
(* fat_log2, lines 132-147.                                                *)
(***************************************************************************)
RECURSIVE fat_log2_loop(_, _)
fat_log2_loop(x, i) ==
  IF x % 2 = 0 THEN fat_log2_loop(x \div 2, i + 1)
  ELSE IF x # 1 THEN -1 ELSE i

\* A logarithm that rounds down what is no power of two.
fat_log2_floor(x) ==
  IF x = 0 THEN -1 ELSE CHOOSE k \in 0..16 : 2 ^ k <= x /\ x < 2 ^ (k + 1)

fat_log2(x) == IF x = 0 THEN -1 ELSE fat_log2_loop(x, 0)

(***************************************************************************)
(* grub_fat_mount, lines 149-305.  The result is [data, m]: data is the    *)
(* volume handle or NoData.                                                *)
(***************************************************************************)
\* fail: grub_free (data); grub_error (GRUB_ERR_BAD_FS, ...); return 0
mount_fail(m) ==
  [ data |-> NoData,
    m |-> grub_error([m EXCEPT !.live = @ - 1], GRUB_ERR_BAD_FS) ]

\* first_fat masked to the variant's width, lines 275-289
first_fat_masked(fat_size, first_fat) ==
  IF fat_size = 32 THEN Mk32(Hi16(first_fat) % 4096, Lo16(first_fat))
  ELSE IF fat_size = 16 THEN Lo16(first_fat)
  ELSE Lo16(first_fat) % 4096

\* magic | bpb.media, lines 275-291
fat_magic(fat_size, media) ==
  IF fat_size = 32 THEN Mk32(4095, 65280 + media)
  ELSE IF fat_size = 16 THEN 65280 + media
  ELSE 3840 + media

\* d with the fields of r assigned
With(d, r) == r @@ d

\* The statements of grub_fat_mount in order; each operator is the program
\* at one point, with what has been read and assigned so far: m is the
\* machine, bpb the boot sector, d the fields of data assigned so far.

\* return data, line 298
mount_return(m, data) == [data |-> data, m |-> [m EXCEPT !.mounted = data]]

\* lines 273-298
mount_first_fat(m, bpb, d, first_fat) ==
  IF ~ReadOk(m) THEN mount_fail(m)
  ELSE IF first_fat_masked(d.fat_size, first_fat)
          # fat_magic(d.fat_size, bpb.media)
    THEN mount_fail(m)
  ELSE mount_return(m,
         With(d, [ attr |-> GRUB_FAT_ATTR_DIRECTORY,
                   \* file_size and cur_cluster are not assigned by
                   \* mount; the driver assigns each before it reads it
                   file_size |-> 0,
                   file_cluster |-> d.root_cluster,
                   cur_cluster_num |-> -1,
                   cur_cluster |-> 0 ]))

\* More sanity checks, lines 262-273
mount_sanity(img, m, bpb, d) ==
  IF ULe(d.num_sectors, d.fat_sector) THEN mount_fail(m)
  ELSE mount_first_fat(
         grub_disk_read(img, m, d.fat_sector, 0, 4, "fatid", -1), bpb, d,
         LE32(DiskBytes(img, d.fat_sector * 512, 4), 1))

\* FAT32, lines 222-241
mount_fat32(img, m, bpb, d) ==
  IF HasBit(bpb.extended_flags, 128)
     /\ bpb.extended_flags % 16 > bpb.num_fats
    THEN mount_fail(m)
  ELSE IF bpb.num_root_entries # 0 \/ bpb.fs_version # 0
    THEN mount_fail(m)
  ELSE mount_sanity(img, m, bpb,
         With(d, [ root_cluster |-> bpb.root_cluster,
                   fat_size |-> 32,
                   cluster_eof_mark |-> 268435448,
                   fat_sector |->
                     IF HasBit(bpb.extended_flags, 128)
                     THEN Trunc16(Add32(d.fat_sector,
                                        Mul32(bpb.extended_flags % 16,
                                              d.sectors_per_fat)))
                     ELSE d.fat_sector ]))

\* FAT12 or FAT16, lines 245-259
mount_fat12_or_16(img, m, bpb, d) ==
  mount_sanity(img, m, bpb,
    With(d, [ root_cluster |-> -1,
              fat_size |-> IF ULe(d.num_clusters, 4085 + 2) THEN 12 ELSE 16,
              cluster_eof_mark |->
                IF ULe(d.num_clusters, 4085 + 2) THEN 4088 ELSE 65528 ]))

\* lines 217-220
mount_num_clusters(img, m, bpb, d) ==
  IF ULe(d.num_clusters, 2) THEN mount_fail(m)
  ELSE IF bpb.sectors_per_fat_16 = 0 THEN mount_fat32(img, m, bpb, d)
  ELSE mount_fat12_or_16(img, m, bpb, d)

\* lines 212-215
mount_cluster_sector(img, m, bpb, d) ==
  mount_num_clusters(img, m, bpb,
    With(d, [ num_clusters |->
                Add32(Shr32(Sub32(d.num_sectors, d.cluster_sector),
                            d.cluster_bits + d.logical_sector_bits), 2) ]))

\* lines 204-212
mount_root(img, m, bpb, d) ==
  mount_cluster_sector(img, m, bpb,
    With(d, [ cluster_sector |-> Add32(d.root_sector, d.num_root_sectors) ]))

\* lines 197-210
mount_num_sectors(img, m, bpb, d) ==
  IF d.num_sectors = 0 THEN mount_fail(m)
  ELSE IF bpb.num_fats = 0 THEN mount_fail(m)
  ELSE mount_root(img, m, bpb,
         With(d, [ root_sector |->
                     Add32(d.fat_sector,
                           Mul32(bpb.num_fats, d.sectors_per_fat)),
                   num_root_sectors |->
                     ((bpb.num_root_entries * GRUB_FAT_DIR_ENTRY_SIZE
                       + bpb.bytes_per_sector - 1)
                      \div (2 ^ (d.logical_sector_bits
                                 + GRUB_DISK_SECTOR_BITS)))
                     * (2 ^ d.logical_sector_bits) ]))

\* lines 189-196
mount_sectors_per_fat(img, m, bpb, d) ==
  IF d.sectors_per_fat = 0 THEN mount_fail(m)
  ELSE mount_num_sectors(img, m, bpb,
         With(d, [ num_sectors |->
                     Shl32(IF bpb.num_total_sectors_16 # 0
                           THEN bpb.num_total_sectors_16
                           ELSE bpb.num_total_sectors_32,
                           d.logical_sector_bits) ]))

\* lines 182-188
mount_fat_sector(img, m, bpb, d) ==
  IF d.fat_sector = 0 THEN mount_fail(m)
  ELSE mount_sectors_per_fat(img, m, bpb,
         With(d, [ sectors_per_fat |->
                     Shl32(IF bpb.sectors_per_fat_16 # 0
                           THEN bpb.sectors_per_fat_16
                           ELSE bpb.sectors_per_fat_32,
                           d.logical_sector_bits) ]))

\* lines 174-181; cb0 is fat_log2 (bpb.sectors_per_cluster)
mount_cluster_bits(img, m, bpb, d, cb0) ==
  IF cb0 < 0 THEN mount_fail(m)
  ELSE mount_fat_sector(img, m, bpb,
         With(d, [ cluster_bits |-> cb0 + d.logical_sector_bits,
                   fat_sector |->
                     Trunc16(bpb.num_reserved_sectors
                             * (2 ^ d.logical_sector_bits)) ]))

\* lines 168-174; lsb0 is fat_log2 (bpb.bytes_per_sector)
mount_logical_sector_bits(img, m, bpb, lsb0) ==
  IF lsb0 < GRUB_DISK_SECTOR_BITS THEN mount_fail(m)
  ELSE mount_cluster_bits(img, m, bpb,
         [ logical_sector_bits |-> lsb0 - GRUB_DISK_SECTOR_BITS ],
         fat_log2(bpb.sectors_per_cluster))

\* lines 164-169
mount_bpb(img, m, bpb) ==
  IF ~ReadOk(m) THEN mount_fail(m)
  ELSE mount_logical_sector_bits(img, m, bpb,
                                 fat_log2(bpb.bytes_per_sector))

\* lines 159-164; the boot sector read delivers the image's BPB
grub_fat_mount(img, m0) ==
  mount_bpb(img,
            grub_disk_read(img, [m0 EXCEPT !.live = @ + 1], 0, 0, 90,
                           "bpb", -1),
            img.bpb)

(***************************************************************************)
(* grub_fat_read_data, lines 307-430.  The result is                       *)
(* [ret, data, m, buf, exit]: buf is what was copied to the caller's       *)
(* buffer, as the extents <<sector, offset, size>> of the device reads     *)
(* that filled it, and exit names the return statement taken.              *)
(***************************************************************************)
\* fat_offset, lines 354-366
fat_offset_of(data) ==
  IF data.fat_size = 32 THEN Shl32(data.cur_cluster, 2)
  ELSE IF data.fat_size = 16 THEN Shl32(data.cur_cluster, 1)
  ELSE Add32(data.cur_cluster, Shr32(data.cur_cluster, 1))

\* next_cluster as decoded from the bytes read, lines 374-386.  Only
\* (fat_size + 7) >> 3 bytes of next_cluster are written by the read; the
\* bytes above them are masked away for FAT12 and FAT16.
decode_next_cluster(data, bytes) ==
  IF data.fat_size = 32 THEN LE32(bytes, 1)
  ELSE IF data.fat_size = 16 THEN LE16(bytes, 1)
  ELSE IF data.cur_cluster % 2 = 1 THEN (LE16(bytes, 1) \div 16) % 4096
  ELSE LE16(bytes, 1) % 4096

\* A walker that knows no end-of-chain mark.
chain_ended_never(data, next_cluster) == FALSE

\* A walker that rejects only the values past the last cluster.
cluster_invalid_high_only(data, next_cluster) ==
  ~ULt(next_cluster, data.num_clusters)

\* Check the end, line 394
chain_ended(data, next_cluster) == ~ULt(next_cluster, data.cluster_eof_mark)

\* line 397
cluster_invalid(data, next_cluster) ==
  ULt(next_cluster, 2) \/ ~ULt(next_cluster, data.num_clusters)

\* The inner loop, lines 348-406: walk the chain until the cursor is at
\* logical_cluster.  The result is [data, m, status].
RECURSIVE find_cluster(_, _, _, _)

\* lines 393-406
find_cluster_decoded(img, data, m, logical_cluster, next_cluster) ==
  IF chain_ended(data, next_cluster)
  THEN [data |-> data, m |-> m, status |-> "eof"]
  ELSE IF cluster_invalid(data, next_cluster)
    THEN [ data |-> data,
           m |-> [grub_error(m, GRUB_ERR_BAD_FS)
                    EXCEPT !.errargs = <<next_cluster>>],
           status |-> "invalid" ]
  ELSE find_cluster(img,
                    [data EXCEPT !.cur_cluster = next_cluster,
                                 !.cur_cluster_num = Add32(@, 1)],
                    m, logical_cluster)

\* lines 372-374: m is the machine after the FAT read, next_cluster the
\* value decoded from its bytes; the entry decoded is noted in m.walked
find_cluster_next(img, data, m, logical_cluster, next_cluster) ==
  IF ~ReadOk(m) THEN [data |-> data, m |-> m, status |-> "fat_error"]
  ELSE find_cluster_decoded(
         img, data,
         [m EXCEPT !.walked = Append(@, [cluster |-> data.cur_cluster,
                                         num |-> data.cur_cluster_num,
                                         next |-> next_cluster])],
         logical_cluster, next_cluster)

\* bytes of one FAT entry, line 370
fat_entry_width(data) == (data.fat_size + 7) \div 8

find_cluster(img, data, m, logical_cluster) ==
  IF ~ULt(data.cur_cluster_num, logical_cluster)
  THEN [data |-> data, m |-> m, status |-> "at"]
  ELSE find_cluster_next(
         img, data,
         grub_disk_read(img, m, data.fat_sector, fat_offset_of(data),
                        fat_entry_width(data), "fat", data.cur_cluster),
         logical_cluster,
         decode_next_cluster(
           data, DiskBytes(img, data.fat_sector * 512 + fat_offset_of(data),
                           fat_entry_width(data))))

\* The sector of the current cluster, lines 409-411
cluster_to_sector(data) ==
  Add32(data.cluster_sector,
        Shl32(Sub32(data.cur_cluster, 2),
              data.cluster_bits + data.logical_sector_bits))

\* A chunk that always runs to the end of the cluster.
chunk_size_unclamped(lcb, offset, len) == (2 ^ lcb) - offset

\* The size of the chunk read from the current cluster, lines 412-414
chunk_size(lcb, offset, len) ==
  IF (2 ^ lcb) - offset > len THEN len ELSE (2 ^ lcb) - offset

\* disk->read_hook = read_hook, line 416
set_read_hook(m, read_hook) == [m EXCEPT !.read_hook = read_hook]

\* A reader that leaves the caller's hook installed after the data read.
clear_read_hook_skipped(m) == m

\* disk->read_hook = 0, line 418
clear_read_hook(m) == [m EXCEPT !.read_hook = NULL]

\* The outer loop, lines 346-429.  The result is
\* [ret, data, m, buf, exit].
RECURSIVE read_clusters(_, _, _, _, _, _, _, _, _)

\* lines 419-426: m is the machine after the data read and the clearing
\* of the hook
read_chunk_done(img, data, m, read_hook, lcb, logical_cluster, offset, len, acc) ==
  IF m.errno # GRUB_ERR_NONE
  THEN [ret |-> -1, data |-> data, m |-> m, buf |-> acc.buf,
        exit |-> "data_error"]
  ELSE read_clusters(img, data, m, read_hook, lcb,
                     Add32(logical_cluster, 1), 0,
                     len - chunk_size(lcb, offset, len),
                     [ret |-> acc.ret + chunk_size(lcb, offset, len),
                      buf |-> Append(acc.buf,
                                     << cluster_to_sector(data), offset,
                                        chunk_size(lcb, offset, len) >>)])

\* lines 393-418: w is what the walker returned
read_chunk(img, w, read_hook, lcb, logical_cluster, offset, len, acc) ==
  IF w.status = "eof"
  THEN [ret |-> acc.ret, data |-> w.data, m |-> w.m, buf |-> acc.buf,
        exit |-> "eof"]
  ELSE IF w.status # "at"
  THEN [ret |-> -1, data |-> w.data, m |-> w.m, buf |-> acc.buf,
        exit |-> w.status]
  ELSE read_chunk_done(
         img, w.data,
         clear_read_hook(
           grub_disk_read(img, set_read_hook(w.m, read_hook),
                          cluster_to_sector(w.data), offset,
                          chunk_size(lcb, offset, len),
                          "data", w.data.cur_cluster)),
         read_hook, lcb, logical_cluster, offset, len, acc)

read_clusters(img, data, m, read_hook, lcb, logical_cluster, offset, len, acc) ==
  IF len = 0
  THEN [ret |-> acc.ret, data |-> data, m |-> m, buf |-> acc.buf,
        exit |-> "done"]
  ELSE read_chunk(img, find_cluster(img, data, m, logical_cluster),
                  read_hook, lcb, logical_cluster, offset, len, acc)

\* A cursor that is started once and never restarted.
reset_cursor_once(data, logical_cluster) ==
  IF data.cur_cluster_num = -1
  THEN [data EXCEPT !.cur_cluster_num = 0, !.cur_cluster = data.file_cluster]
  ELSE data

\* The cursor is restarted when the target lies before it, lines 340-344
reset_cursor(data, logical_cluster) ==
  IF ULt(logical_cluster, data.cur_cluster_num)
  THEN [data EXCEPT !.cur_cluster_num = 0, !.cur_cluster = data.file_cluster]
  ELSE data

\* The size of the read of the FAT12/16 root directory, lines 323-325
root_size(data, offset, len) ==
  IF Sub32(Shl32(data.num_root_sectors, GRUB_DISK_SECTOR_BITS), offset) > len
  THEN len
  ELSE Sub32(Shl32(data.num_root_sectors, GRUB_DISK_SECTOR_BITS), offset)

\* lines 327-330: m is the machine after the read
root_read(data, m, offset, size) ==
  IF ~ReadOk(m)
  THEN [ret |-> -1, data |-> data, m |-> m, buf |-> <<>>,
        exit |-> "root_error"]
  ELSE [ret |-> size, data |-> data, m |-> m,
        buf |-> << <<data.root_sector, offset, size>> >>,
        exit |-> "root"]

\* lines 334-336
logical_cluster_bits(data) ==
  data.cluster_bits + data.logical_sector_bits + GRUB_DISK_SECTOR_BITS

grub_fat_read_data(img, data, m, read_hook, offset, len) ==
  IF data.file_cluster = -1
  THEN \* the FAT12/16 root directory, lines 321-331
    root_read(data,
              grub_disk_read(img, m, data.root_sector, offset,
                             root_size(data, offset, len), "root", -1),
              offset, root_size(data, offset, len))
  ELSE \* lines 333-346
    read_clusters(img,
                  reset_cursor(data, offset \div (2 ^ logical_cluster_bits(data))),
                  m, read_hook, logical_cluster_bits(data),
                  offset \div (2 ^ logical_cluster_bits(data)),
                  offset % (2 ^ logical_cluster_bits(data)), len,
                  [ret |-> 0, buf |-> <<>>])

(***************************************************************************)
(* String helpers the driver calls (kern/misc.c).  A C string is the       *)
(* sequence of its bytes before the terminating NUL.                       *)
(***************************************************************************)
grub_isspace(c) == c \in {32, 9, 10, 13}
grub_tolower(c) == IF c >= 65 /\ c <= 90 THEN c + 32 ELSE c

RECURSIVE CString(_)
CString(bytes) ==
  IF bytes = <<>> \/ Head(bytes) = 0 THEN <<>>
  ELSE <<Head(bytes)>> \o CString(Tail(bytes))

\* grub_utf16_to_utf8 (dest, src, size), kern/misc.c.  One turn of its
\* loop: the bytes written for the code unit code when high is the pending
\* high surrogate (0: none) ...
utf8_of_unit(high, code) ==
  IF high # 0 THEN
    IF code >= 56320 /\ code <= 57343 THEN
      LET c == (high - 55296) * 1024 + (code - 56320) + 65536
      IN  << 240 + (c \div 262144), 128 + ((c \div 4096) % 64),
             128 + ((c \div 64) % 64), 128 + (c % 64) >>
    ELSE <<63>>
  ELSE IF code <= 127 THEN <<code>>
  ELSE IF code <= 2047 THEN <<192 + (code \div 64), 128 + (code % 64)>>
  ELSE IF code >= 55296 /\ code <= 56319 THEN <<>>
  ELSE IF code >= 56320 /\ code <= 57343 THEN <<63>>
  ELSE << 224 + (code \div 4096), 128 + ((code \div 64) % 64),
          128 + (code % 64) >>

\* ... and the high surrogate pending after it
high_after_unit(high, code) ==
  IF high = 0 /\ code >= 55296 /\ code <= 56319 THEN code ELSE 0

RECURSIVE grub_utf16_to_utf8(_, _)
grub_utf16_to_utf8(src, high) ==
  IF src = <<>> THEN <<>>
  ELSE utf8_of_unit(high, Head(src))
       \o grub_utf16_to_utf8(Tail(src), high_after_unit(high, Head(src)))

(***************************************************************************)
(* grub_fat_find_dir, lines 435-619.                                       *)
(***************************************************************************)
\* while (*path == '/') path++;  lines 456-457
RECURSIVE skip_slashes(_)
skip_slashes(path) ==
  IF path # <<>> /\ Head(path) = 47 THEN skip_slashes(Tail(path)) ELSE path

\* grub_strchr (path, '/'): the index of the first '/', 0 when there is none
strchr_slash(path) ==
  IF \E i \in 1..Len(path) : path[i] = 47
  THEN CHOOSE i \in 1..Len(path) :
         path[i] = 47 /\ \A j \in 1..(i - 1) : path[j] # 47
  ELSE 0

\* The fields of the record read into dir (struct grub_fat_dir_entry and,
\* over the same bytes, struct grub_fat_long_name_entry), lines 75-101.
dir_name(dir) == SubSeq(dir, 1, 11)
dir_attr(dir) == dir[12]
dir_first_cluster_high(dir) == LE16(dir, 21)
dir_first_cluster_low(dir) == LE16(dir, 27)
dir_file_size(dir) == LE32(dir, 29)
long_name_id(dir) == dir[1]
long_name_checksum(dir) == dir[14]
\* name1 (5 units at byte 1), name2 (6 units at byte 14), name3 (2 at 28)
long_name_units(dir) ==
  [i \in 1..13 |->
     IF i <= 5 THEN LE16(dir, 2 + 2 * (i - 1))
     ELSE IF i <= 11 THEN LE16(dir, 15 + 2 * (i - 6))
     ELSE LE16(dir, 29 + 2 * (i - 12))]

\* dir.attr & ~GRUB_FAT_ATTR_VALID, line 535
attr_invalid(attr) == HasBit(attr, 8) \/ HasBit(attr, 64) \/ HasBit(attr, 128)

\* dir.attr & GRUB_FAT_ATTR_DIRECTORY
attr_directory(attr) ==
  IF HasBit(attr, GRUB_FAT_ATTR_DIRECTORY) THEN GRUB_FAT_ATTR_DIRECTORY ELSE 0

\* The checksum loop, lines 546-547, in grub_uint8_t arithmetic
RECURSIVE sum8dot3(_, _)
sum8dot3(name, sum) ==
  IF name = <<>> THEN sum
  ELSE sum8dot3(Tail(name),
                (((sum \div 2) + ((sum % 2) * 128)) + Head(name)) % 256)

\* Convert the 8.3 file name, lines 579-593
RECURSIVE name_run(_)
name_run(bytes) ==
  IF bytes = <<>> \/ Head(bytes) = 0 \/ grub_isspace(Head(bytes)) THEN <<>>
  ELSE <<grub_tolower(Head(bytes))>> \o name_run(Tail(bytes))

\* s is the name with its '.'; filep is on its last byte, and a '.' there
\* is overwritten by the terminator (lines 590-593)
drop_final_dot(s) ==
  IF s[Len(s)] = 46 THEN SubSeq(s, 1, Len(s) - 1) ELSE s

convert_8_3(name) ==
  drop_final_dot(name_run(SubSeq(name, 1, 8)) \o <<46>>
                 \o name_run(SubSeq(name, 9, 11)))

\* The long name held in unibuf, lines 553-556
long_filename(unibuf, slots) ==
  CString(grub_utf16_to_utf8([u \in 1..(slots * 13) |-> unibuf[u - 1]], 0))

\* hook (filename, dir.attr & GRUB_FAT_ATTR_DIRECTORY)
call_hook_fn(m, filename, dirflag) ==
  [m EXCEPT !.calls =
     Append(@, [name |-> filename, dir |-> dirflag,
                stop |-> (Len(m.calls) + 1 = m.stopAt)])]

HookStopped(m) == m.calls[Len(m.calls)].stop

\* The scan loop, lines 488-607.  L holds the locals: dir (and whether any
\* record has been read into it), offset, slot, slots, checksum, unibuf.
\* Each operator below is the loop body at one point; what an iteration
\* leaves is [data, m, L, done], done telling whether the loop is left.

\* The loop is left, lines 501-505 and 598, 605
scan_break(data, m, L) == [data |-> data, m |-> m, L |-> L, done |-> TRUE]

\* The loop goes on with the next record, lines 488 and 525, 531, 536, 564
scan_continue(data, m, L) ==
  [data |-> data, m |-> m, L |-> L, done |-> FALSE]

\* lines 499-505
scan_end(data, m, call_hook, L) ==
  scan_break(data,
             IF m.errno = GRUB_ERR_NONE /\ ~call_hook
             THEN grub_error(m, GRUB_ERR_FILE_NOT_FOUND) ELSE m,
             L)

\* After a listing call of the hook, lines 560-564 and 597-598: m is the
\* machine after the call, Lnext the locals of the next iteration
scan_listed(data, m, L, Lnext) ==
  IF HookStopped(m) THEN scan_break(data, m, L)
  ELSE scan_continue(data, m, Lnext)

\* dir.attr & GRUB_FAT_ATTR_DIRECTORY of the record in L
dirflag(L) == attr_directory(dir_attr(L.dir))

\* lines 595-606: filename is the converted 8.3 name
scan_8_3(data, m, dirname, call_hook, L, filename) ==
  IF dirname = <<>> /\ call_hook
  THEN scan_listed(data, call_hook_fn(m, filename, dirflag(L)), L, L)
  ELSE IF dirname = filename
  THEN scan_break(data,
                  IF call_hook THEN call_hook_fn(m, filename, dirflag(L))
                  ELSE m,
                  L)
  ELSE scan_continue(data, m, L)

\* lines 556-576: filename is the long name taken from unibuf
scan_long_filename(data, m, dirname, call_hook, L, filename) ==
  IF dirname = <<>> /\ call_hook
  THEN scan_listed(data, call_hook_fn(m, filename, dirflag(L)), L,
                   [L EXCEPT !.checksum = -1])
  ELSE IF dirname = filename
  THEN scan_break(data,
                  IF call_hook THEN call_hook_fn(m, filename, dirflag(L))
                  ELSE m,
                  L)
  ELSE scan_8_3(data, m, dirname, call_hook,
                [L EXCEPT !.checksum = -1], convert_8_3(dir_name(L.dir)))

\* lines 542-593: the record in L is a valid short entry; the name taken
\* from unibuf is noted in m.produced
scan_short(data, m, dirname, call_hook, L) ==
  IF L.checksum # -1 /\ L.slot = 0
  THEN IF sum8dot3(dir_name(L.dir), 0) = L.checksum
       THEN scan_long_filename(data,
                               [m EXCEPT !.produced =
                                  Append(@, [name |-> long_filename(
                                                        L.unibuf, L.slots),
                                             short |-> L.dir,
                                             slots |-> L.slots,
                                             accepted |-> L.accepted])],
                               dirname, call_hook, L,
                               long_filename(L.unibuf, L.slots))
       ELSE scan_8_3(data, m, dirname, call_hook,
                     [L EXCEPT !.checksum = -1],
                     convert_8_3(dir_name(L.dir)))
  ELSE scan_8_3(data, m, dirname, call_hook, L,
                convert_8_3(dir_name(L.dir)))

\* A scanner that takes a slot whatever checksum it carries.
slot_rejected_by_id_only(L, id) == id # L.slot \/ L.slot = 0

\* line 521
slot_rejected(L, id) ==
  id # L.slot \/ L.slot = 0 \/ L.checksum # long_name_checksum(L.dir)

\* lines 521-531: id is the slot number of the record, after line 516
scan_long_slot(data, m, L, id) ==
  IF slot_rejected(L, id)
  THEN scan_continue(data, m, [L EXCEPT !.checksum = -1])
  ELSE scan_continue(
         data, m,
         [L EXCEPT
            !.slot = @ - 1,
            !.accepted = Append(@, L.dir),
            !.unibuf =
              [u \in ((L.slot - 1) * 13)..((L.slot - 1) * 13 + 12) |->
                 long_name_units(L.dir)[u - (L.slot - 1) * 13 + 1]]
              @@ @])

\* lines 508-519
scan_long_name(data, m, L) ==
  IF HasBit(long_name_id(L.dir), 64)
  THEN scan_long_slot(data, m,
                      [L EXCEPT !.slots = long_name_id(L.dir) % 64,
                                !.slot = long_name_id(L.dir) % 64,
                                !.checksum = long_name_checksum(L.dir),
                                !.accepted = <<>>],
                      long_name_id(L.dir) % 64)
  ELSE scan_long_slot(data, m, L, long_name_id(L.dir))

\* lines 499-540: a record has been read into L.dir
scan_entry(data, m, dirname, call_hook, L) ==
  IF L.dir[1] = 0 THEN scan_end(data, m, call_hook, L)
  ELSE IF dir_attr(L.dir) = GRUB_FAT_ATTR_LONG_NAME
    THEN scan_long_name(data, m, L)
  ELSE IF L.dir[1] = 229 \/ attr_invalid(dir_attr(L.dir))
    THEN scan_continue(data, m, L)
  ELSE scan_short(data, m, dirname, call_hook,
                  [L EXCEPT !.dir = IF @[1] = 5 THEN [@ EXCEPT ![1] = 229]
                                    ELSE @])

\* lines 496-499: r is what grub_fat_read_data returned
scan_read(img, r, dirname, call_hook, L) ==
  IF r.ret # GRUB_FAT_DIR_ENTRY_SIZE
  THEN scan_end(r.data, r.m, call_hook, L)
  ELSE scan_entry(r.data, r.m, dirname, call_hook,
                  [L EXCEPT
                     !.dir = DiskBytes(img, r.buf[1][1] * 512 + r.buf[1][2],
                                       GRUB_FAT_DIR_ENTRY_SIZE),
                     !.dir_valid = TRUE])

\* One turn of the loop, lines 493-498
scan_iteration(img, data, m, dirname, call_hook, L) ==
  scan_read(img,
            grub_fat_read_data(img, data, m, NULL,
                               L.offset + GRUB_FAT_DIR_ENTRY_SIZE,
                               GRUB_FAT_DIR_ENTRY_SIZE),
            dirname, call_hook,
            [L EXCEPT !.offset = @ + GRUB_FAT_DIR_ENTRY_SIZE])

\* while (1), lines 488-607: s is what the last iteration left
RECURSIVE scan_dir(_, _, _, _)
scan_dir(img, s, dirname, call_hook) ==
  IF s.done THEN s
  ELSE scan_dir(img,
                scan_iteration(img, s.data, s.m, dirname, call_hook, s.L),
                dirname, call_hook)

\* The value of an uninitialized object
GARBAGE == "uninitialized"

\* A resolver step that keeps the cursor of the directory it scanned.
invalidate_cursor_skipped(data) == data

\* data->cur_cluster_num = ~0UL, line 616
invalidate_cursor(data) == [data EXCEPT !.cur_cluster_num = -1]

\* buf = grub_malloc (...) or grub_strdup (...), lines 464, 474, 478, 479
grub_malloc(m, buf) == [m EXCEPT !.bufs[buf] = @ + 1]

\* grub_free (buf), lines 609-610
free_buffer(m, buf) == [m EXCEPT !.bufs[buf] = @ - 1]

\* grub_fat_find_dir returns dirp (has_p, p) and leaves data
find_dir_left(has_p, p, data, m) ==
  [ has_p |-> has_p, p |-> p, data |-> data,
    m |-> [m EXCEPT !.steps = Append(@, data)] ]

\* lines 609-618: s is what the scan loop left, path the path after its
\* leading slashes, i the index of its first '/' (0: none)
find_dir_return(s, path, i) ==
  find_dir_left(
    i # 0,
    IF i # 0 THEN SubSeq(path, i, Len(path)) ELSE <<>>,
    invalidate_cursor(
      [ s.data EXCEPT
          !.attr = IF s.L.dir_valid THEN dir_attr(s.L.dir) ELSE GARBAGE,
          !.file_size =
            IF s.L.dir_valid THEN dir_file_size(s.L.dir) ELSE GARBAGE,
          !.file_cluster =
            IF s.L.dir_valid
            THEN Mk32(dir_first_cluster_high(s.L.dir),
                      dir_first_cluster_low(s.L.dir))
            ELSE GARBAGE ]),
    free_buffer(free_buffer(s.m, "filename"), "dirname"))

\* lines 442-447 and 459-486: dirname, filename and unibuf are allocated
find_dir_scan(img, data, m, path, i, hook) ==
  find_dir_return(
    scan_dir(img,
             scan_continue(
               data,
               grub_malloc(grub_malloc(grub_malloc(m, "dirname"),
                                       "filename"),
                           "unibuf"),
               [ dir |-> <<>>, dir_valid |-> FALSE,
                 offset |-> -GRUB_FAT_DIR_ENTRY_SIZE,
                 slot |-> -1, slots |-> -1, checksum |-> -1,
                 unibuf |-> <<>>,
                 \* the slots copied into unibuf since the last start marker
                 accepted |-> <<>> ]),
             IF i # 0 THEN SubSeq(path, 1, i - 1) ELSE path,
             i = 0 /\ hook),
    path, i)

\* lines 459
find_dir_component(img, data, m, path, hook) ==
  find_dir_scan(img, data, m, path, strchr_slash(path), hook)

\* hook is TRUE when the caller passed a hook.  The result is
\* [has_p, p, data, m]: p is the path still to resolve (the returned dirp),
\* has_p is FALSE when NULL is returned.
grub_fat_find_dir(img, data, m, path, hook) ==
  IF ~HasBit(data.attr, GRUB_FAT_ATTR_DIRECTORY)
  THEN find_dir_left(FALSE, <<>>, data,
                     grub_error(m, GRUB_ERR_BAD_FILE_TYPE))
  ELSE find_dir_component(img, data, m, skip_slashes(path), hook)

(***************************************************************************)
(* The handlers.  Each returns the machine state it leaves and its         *)
(* results.                                                                *)
(***************************************************************************)
grub_free(m, ptr) == IF ptr = NoData THEN m ELSE [m EXCEPT !.live = @ - 1]
grub_dl_ref(m) == [m EXCEPT !.refs = @ + 1]
grub_dl_unref(m) == [m EXCEPT !.refs = @ - 1]

\* The do-while loop of grub_fat_open, lines 668-674
RECURSIVE open_resolve(_, _, _, _)

\* lines 671-674: r is what grub_fat_find_dir returned
open_resolve_next(img, r) ==
  IF r.m.errno # GRUB_ERR_NONE \/ ~r.has_p THEN r
  ELSE open_resolve(img, r.data, r.m, r.p)

open_resolve(img, data, m, p) ==
  open_resolve_next(img, grub_fat_find_dir(img, data, m, p, FALSE))

\* What the host's file object holds of the driver: file->data, file->size
NoFile == [open |-> FALSE]

\* fail:, lines 687-695
open_fail(m, data) ==
  [file |-> NoFile, m |-> grub_dl_unref(grub_free(m, data))]

\* lines 671-685: r is what the loop left
open_resolved(r) ==
  IF r.m.errno # GRUB_ERR_NONE THEN open_fail(r.m, r.data)
  ELSE IF HasBit(r.data.attr, GRUB_FAT_ATTR_DIRECTORY)
    THEN open_fail(grub_error(r.m, GRUB_ERR_BAD_FILE_TYPE), r.data)
  ELSE [file |-> [open |-> TRUE, data |-> r.data, size |-> r.data.file_size],
        m |-> r.m]

\* lines 664-674: mt is what grub_fat_mount returned
open_mounted(img, mt, name) ==
  IF mt.data = NoData THEN open_fail(mt.m, NoData)
  ELSE open_resolved(open_resolve(img, mt.data, mt.m, name))

\* grub_fat_open, lines 654-696: [file, m]
grub_fat_open(img, m0, name) ==
  open_mounted(img, grub_fat_mount(img, grub_dl_ref(m0)), name)

\* The do-while loop of grub_fat_dir, lines 637-641
RECURSIVE dir_resolve(_, _, _, _, _)

\* line 641: r is what grub_fat_find_dir returned
dir_resolve_next(img, r, hook) ==
  IF r.has_p /\ r.m.errno = GRUB_ERR_NONE
  THEN dir_resolve(img, r.data, r.m, r.p, hook)
  ELSE r

dir_resolve(img, data, m, p, hook) ==
  dir_resolve_next(img, grub_fat_find_dir(img, data, m, p, hook), hook)

\* fail:, lines 643-651
dir_fail(m, data) == grub_dl_unref(grub_free(m, data))

\* lines 641-651: r is what the loop left
dir_resolved(r) == dir_fail(r.m, r.data)

\* lines 633-641: mt is what grub_fat_mount returned
dir_mounted(img, mt, path, hook) ==
  IF mt.data = NoData THEN dir_fail(mt.m, NoData)
  ELSE dir_resolved(dir_resolve(img, mt.data, mt.m, path, hook))

\* grub_fat_dir, lines 621-652
grub_fat_dir(img, m0, path, hook) ==
  dir_mounted(img, grub_fat_mount(img, grub_dl_ref(m0)), path, hook)

\* The loop of grub_fat_label, lines 739-766: [m, label, exit]; label is
\* <<>> for *label = 0 and <<string>> for a string
RECURSIVE label_scan(_, _, _, _)

\* lines 761-765: dir is the record read
label_entry(img, data, m, offset, dir) ==
  IF dir[1] = 0
  THEN [m |-> m, label |-> <<>>, exit |-> "no label"]
  ELSE IF dir_attr(dir) = GRUB_FAT_ATTR_VOLUME_ID
  THEN [m |-> m, label |-> <<CString(dir_name(dir))>>, exit |-> "label"]
  ELSE label_scan(img, data, m, offset)

\* lines 747-759: r is what grub_fat_read_data returned
label_read(img, r, offset) ==
  IF r.ret # GRUB_FAT_DIR_ENTRY_SIZE
  THEN IF r.m.errno # GRUB_ERR_NONE
       THEN [m |-> grub_free(grub_dl_unref(r.m), r.data), label |-> <<>>,
             exit |-> "fail"]
       ELSE [m |-> r.m, label |-> <<>>, exit |-> "no label"]
  ELSE label_entry(img, r.data, r.m, offset,
                   DiskBytes(img, r.buf[1][1] * 512 + r.buf[1][2],
                             GRUB_FAT_DIR_ENTRY_SIZE))

label_scan(img, data, m, offset0) ==
  label_read(img,
             grub_fat_read_data(img, data, m, NULL,
                                offset0 + GRUB_FAT_DIR_ENTRY_SIZE,
                                GRUB_FAT_DIR_ENTRY_SIZE),
             offset0 + GRUB_FAT_DIR_ENTRY_SIZE)

\* lines 729-739: mt is what grub_fat_mount returned
label_mounted(img, mt) ==
  IF mt.data = NoData
  THEN [m |-> grub_free(grub_dl_unref(mt.m), NoData), label |-> <<>>,
        exit |-> "mount"]
  ELSE IF ~HasBit(mt.data.attr, GRUB_FAT_ATTR_DIRECTORY)
  THEN [m |-> grub_error(mt.m, GRUB_ERR_BAD_FILE_TYPE), label |-> <<>>,
        exit |-> "not a directory"]
  ELSE label_scan(img, mt.data, mt.m, -GRUB_FAT_DIR_ENTRY_SIZE)

\* grub_fat_label, lines 717-779
grub_fat_label(img, m0) ==
  label_mounted(img, grub_fat_mount(img, grub_dl_ref(m0)))

(***************************************************************************)
(* The inputs of the model.                                                *)
(***************************************************************************)
Paths ==
  { <<>>,                                        \* ""
    <<47>>,                                      \* "/"
    <<47, 104, 105, 46, 116>>,                   \* "/hi.t"
    <<104, 105, 46, 116, 47>>,                   \* "hi.t/"
    <<47, 65, 98>>,                              \* "/Ab"
    <<47, 97, 98, 126, 49>>,                     \* "/ab~1"
    <<47, 100>>,                                 \* "/d"
    <<47, 100, 47>>,                             \* "/d/"
    <<100, 47, 47, 120>>,                        \* "d//x"
    <<47, 100, 47, 46, 46, 47, 104, 105, 46, 116>>,   \* "/d/../hi.t"
    <<47, 100, 47, 46, 46, 47>>,                 \* "/d/../"
    <<47, 107>>,                                 \* "/k"
    <<47, 108>>,                                 \* "/l"
    <<47, 122>>,                                 \* "/z"
    <<47, 114>>,                                 \* "/r"
    <<47, 110, 111>>,                            \* "/no"
    <<47, 110, 111, 47, 120>> }                  \* "/no/x"

Offsets == {0, 6, 500, 1024, 1536}
Lens == {1, 16, 600, 2000}
FailPoints == 0..MaxFailAt
StopPoints == 0..MaxStopAt

(***************************************************************************)
(* The state.                                                              *)
(*   img         the disk behind the device (the name of its image)        *)
(*   file        the host's file object: NoFile, or the data and size      *)
(*               grub_fat_open stored in it                                *)
(*   live        volume handles allocated and not freed                    *)
(*   refs        references held on my_mod                                 *)
(*   grub_errno  the error left by the last operation                      *)
(*   read_hook   disk->read_hook                                           *)
(*   last        the operation that has just returned to the host: its     *)
(*               arguments, results and device reads ("none" after the     *)
(*               host has taken them)                                      *)
(***************************************************************************)
VARIABLES img, file, live, refs, grub_errno, read_hook, last

vars == <<img, file, live, refs, grub_errno, read_hook, last>>

Idle == [op |-> "none"]

Init ==
  /\ img \in {i.name : i \in Images}
  /\ file = NoFile
  /\ live = 0
  /\ refs = 0
  /\ grub_errno = GRUB_ERR_NONE
  /\ read_hook = NULL
  /\ last = Idle

\* What every operation leaves behind of its machine state.
Leave(m) ==
  /\ live' = m.live
  /\ refs' = m.refs
  /\ grub_errno' = m.errno
  /\ read_hook' = m.read_hook

\* r is what grub_fat_open returned
OpenReturns(r, path, failAt) ==
  /\ file' = r.file
  /\ Leave(r.m)
  /\ last' = [op |-> "open", path |-> path, failAt |-> failAt,
              live0 |-> live, log |-> r.m.log, calls |-> r.m.calls,
              errargs |-> r.m.errargs, mounted |-> r.m.mounted,
              walked |-> r.m.walked, steps |-> r.m.steps,
              produced |-> r.m.produced, bufs |-> r.m.bufs]

Open(path, failAt) ==
  /\ last = Idle /\ ~file.open /\ live < MaxLive
  /\ OpenReturns(grub_fat_open(Disk(img), Machine(failAt, 0, live, refs),
                               path),
                 path, failAt)
  /\ UNCHANGED img

\* r is what grub_fat_read_data returned
ReadReturns(r, offset, len, hook, failAt) ==
  /\ file' = [file EXCEPT !.data = r.data]
  /\ Leave(r.m)
  /\ last' = [op |-> "read", offset |-> offset, len |-> len,
              hook |-> hook, failAt |-> failAt, ret |-> r.ret,
              buf |-> r.buf, exit |-> r.exit, log |-> r.m.log,
              errargs |-> r.m.errargs, before |-> file.data,
              walked |-> r.m.walked]

\* grub_fat_read, lines 698-703: offset is file->offset, hook is
\* file->read_hook
Read(offset, len, hook, failAt) ==
  /\ last = Idle /\ file.open
  /\ ReadReturns(grub_fat_read_data(Disk(img), file.data,
                                    Machine(failAt, 0, live, refs),
                                    hook, offset, len),
                 offset, len, hook, failAt)
  /\ UNCHANGED img

\* grub_fat_close, lines 705-715
Close ==
  /\ last = Idle /\ file.open
  /\ Leave([grub_dl_unref(grub_free(Machine(0, 0, live, refs), file.data))
              EXCEPT !.errno = grub_errno])
  /\ last' = [op |-> "close"]
  /\ file' = NoFile
  /\ UNCHANGED img

\* m is the machine grub_fat_dir left
DirReturns(m, path, hook, stopAt, failAt) ==
  /\ Leave(m)
  /\ last' = [op |-> "dir", path |-> path, hook |-> hook,
              live0 |-> live, stopAt |-> stopAt, failAt |-> failAt,
              log |-> m.log, calls |-> m.calls, errargs |-> m.errargs,
              mounted |-> m.mounted, walked |-> m.walked,
              steps |-> m.steps, produced |-> m.produced,
              bufs |-> m.bufs]

Dir(path, hook, stopAt, failAt) ==
  /\ last = Idle /\ ~file.open /\ live < MaxLive
  /\ DirReturns(grub_fat_dir(Disk(img), Machine(failAt, stopAt, live, refs),
                             path, hook),
                path, hook, stopAt, failAt)
  /\ UNCHANGED <<img, file>>

\* r is what grub_fat_label returned
LabelReturns(r, failAt) ==
  /\ Leave(r.m)
  /\ last' = [op |-> "label", failAt |-> failAt, label |-> r.label,
              live0 |-> live, exit |-> r.exit, log |-> r.m.log,
              mounted |-> r.m.mounted, walked |-> r.m.walked,
              bufs |-> r.m.bufs]

Label(failAt) ==
  /\ last = Idle /\ ~file.open /\ live < MaxLive
  /\ LabelReturns(grub_fat_label(Disk(img), Machine(failAt, 0, live, refs)),
                  failAt)
  /\ UNCHANGED <<img, file>>

\* The host takes the result and clears grub_errno before its next command.
\* It runs one command at a time: it lists a directory or asks for the
\* label (Dir, Label) while it holds no open file.
Return ==
  /\ last # Idle
  /\ last' = Idle
  /\ grub_errno' = GRUB_ERR_NONE
  /\ UNCHANGED <<img, file, live, refs, read_hook>>

Next ==
  \/ \E path \in Paths, failAt \in FailPoints : Open(path, failAt)
  \/ \E offset \in Offsets, len \in Lens, hook \in {NULL, "hook"},
        failAt \in FailPoints : Read(offset, len, hook, failAt)
  \/ Close
  \/ \E path \in Paths, hook \in BOOLEAN, failAt \in FailPoints :
       \E stopAt \in (IF hook THEN StopPoints ELSE {0}) :
         Dir(path, hook, stopAt, failAt)
  \/ \E failAt \in FailPoints : Label(failAt)
  \/ Return

Spec == Init /\ [][Next]_vars

(***************************************************************************)
(* Properties.  Each is stated over the state an operation leaves: its     *)
(* record in last, the file object, and the machine state.                 *)
(***************************************************************************)
NoFault == \A i \in 1..Len(last.log) : last.log[i].ok

\* C1: when open, dir or label returns, the volume handle its mount
\* allocated has been freed on every exit path -- the only handle that
\* outlives an operation is the one a successful open stored in the file.
C1_HandleFreedOnEveryExit ==
  last.op \in {"open", "dir", "label"} =>
    live = last.live0 + (IF last.op = "open" /\ file.open THEN 1 ELSE 0)

\* C2: the device's read notification hook is null during every read of
\* the boot sector, of the FAT and of a fixed root directory on behalf of
\* a directory scan; it is the caller's hook only for the one device read
\* that fetches a chunk of data under grub_fat_read_data, and it is null
\* again when the operation returns.
C2_HookOnlyAroundDataRead ==
  /\ read_hook = NULL
  /\ last.op \in {"open", "read", "dir", "label"} =>
        \A i \in 1..Len(last.log) :
          LET e == last.log[i]
          IN  /\ e.kind \in {"bpb", "fatid", "fat", "root"} => e.hook = NULL
              /\ e.hook # NULL => last.op = "read" /\ e.kind = "data"
              /\ last.op = "read" /\ e.kind = "data" => e.hook = last.hook

\* A read with a hook that fetched a chunk and then went back to the FAT.
C2_Witness ==
  /\ last.op = "read"
  /\ last.hook = "hook"
  /\ \E i, j \in 1..Len(last.log) :
        /\ i < j
        /\ last.log[i].kind = "data" /\ last.log[i].hook = "hook"
        /\ last.log[j].kind = "fat" /\ last.log[j].hook = NULL

(***************************************************************************)
(* The image's own account of a file: its chain as the formatter wrote it, *)
(* and where the bytes of a slice of it lie on the disk.                   *)
(***************************************************************************)
RefValid(im, c) == 2 <= c /\ c < im.nc

\* The clusters from c on, up to the first link that is an end-of-chain
\* mark ("eof") or no cluster number ("invalid").
RECURSIVE RefWalk(_, _, _)
RefWalk(im, c, acc) ==
  LET v == FatVal(im.vals, c)
  IN  IF v >= im.eof THEN [clusters |-> Append(acc, c), end |-> "eof"]
      ELSE IF ~RefValid(im, v)
        THEN [clusters |-> Append(acc, c), end |-> "invalid"]
      ELSE RefWalk(im, v, Append(acc, c))

RefChain(im, start) == RefWalk(im, start, <<>>)

RefWellFormed(im, start) ==
  RefValid(im, start) /\ RefChain(im, start).end = "eof"

RefChainBytes(im, start) ==
  Len(RefChain(im, start).clusters) * im.cluster_bytes

Max0(n) == IF n > 0 THEN n ELSE 0
Min(a, b) == IF a < b THEN a ELSE b

\* The extents (byte address, size) of the slice [offset, offset + len) of
\* the concatenation of the clusters of chain.
RECURSIVE RefSlice(_, _, _, _)
RefSlice(im, chain, offset, len) ==
  IF len = 0 \/ chain = <<>> THEN <<>>
  ELSE IF offset >= im.cluster_bytes
    THEN RefSlice(im, Tail(chain), offset - im.cluster_bytes, len)
  ELSE LET n == Min(len, im.cluster_bytes - offset)
       IN  << [at |-> im.cluster_at + (Head(chain) - 2) * im.cluster_bytes
                      + offset,
               size |-> n] >>
           \o RefSlice(im, Tail(chain), 0, len - n)

\* The extents the reader copied, as byte addresses.
BufExtents(buf) ==
  [i \in 1..Len(buf) |->
     [at |-> buf[i][1] * (2 ^ GRUB_DISK_SECTOR_BITS) + buf[i][2],
      size |-> buf[i][3]]]

RECURSIVE SumSizes(_)
SumSizes(buf) == IF buf = <<>> THEN 0 ELSE Head(buf)[3] + SumSizes(Tail(buf))

\* The open file's first cluster, as grub_fat_open stored it.
Start == file.data.file_cluster

\* C3: every physical cluster number the reader uses to compute a data
\* sector or a FAT-entry offset is a cluster of the volume,
\* 2 <= c < num_clusters, the first cluster taken from a directory entry
\* or from the BPB included.
C3_EveryClusterInRange ==
  last.op \in {"open", "read", "dir", "label"} =>
    \A i \in 1..Len(last.log) :
      last.log[i].kind \in {"fat", "data"} =>
        RefValid(Disk(img), last.log[i].cluster)

\* C4: on a well-formed chain, a read that the device serves returns,
\* whatever reads came before on the handle, the count and the bytes a
\* freshly opened handle returns: the slice [offset, offset + len) of the
\* concatenation of the file's clusters in chain order.
C4_ReadIsPositional ==
  last.op = "read" /\ NoFault /\ RefWellFormed(Disk(img), Start) =>
    LET im == Disk(img)
        fresh == grub_fat_read_data(
                   im, [last.before EXCEPT !.cur_cluster_num = -1],
                   Machine(0, 0, live, refs), last.hook,
                   last.offset, last.len)
        slice == RefSlice(im, RefChain(im, Start).clusters,
                          last.offset, last.len)
    IN  /\ last.ret = fresh.ret
        /\ last.buf = fresh.buf
        /\ BufExtents(last.buf) = slice
        /\ last.ret = SumSizes(last.buf)
        /\ last.ret = Min(last.len,
                          Max0(RefChainBytes(im, Start) - last.offset))

\* A read behind the cursor an earlier read left, on a well-formed chain.
C4_Witness ==
  /\ last.op = "read" /\ NoFault /\ RefWellFormed(Disk(img), Start)
  /\ last.before.cur_cluster_num > 0
  /\ last.offset \div Disk(img).cluster_bytes < last.before.cur_cluster_num
  /\ last.ret > 0
  /\ Len(last.buf) > 1

RefFileBytes ==
  IF Start = -1
  THEN Disk(img).bpb.num_root_entries * GRUB_FAT_DIR_ENTRY_SIZE
  ELSE RefChainBytes(Disk(img), Start)

BadLinkReads ==
  {i \in 1..Len(last.log) :
     /\ last.log[i].kind = "fat" /\ last.log[i].ok
     /\ FatVal(Disk(img).vals, last.log[i].cluster) < Disk(img).eof
     /\ ~RefValid(Disk(img), FatVal(Disk(img).vals, last.log[i].cluster))}

\* C6: when the chain walker reads a FAT value v below the end-of-chain
\* mark that is < 2 or >= num_clusters, the read returns -1 with the
\* "invalid cluster" error reporting v, that FAT read is the last device
\* read of the operation, and the cursor stays on the cluster whose entry
\* held v, at its index in the chain.
C6_InvalidClusterStopsRead ==
  last.op = "read" =>
    \A i \in BadLinkReads :
      LET c == last.log[i].cluster
          chain == RefChain(Disk(img), Start).clusters
      IN  /\ i = Len(last.log)
          /\ last.ret = -1
          /\ grub_errno = GRUB_ERR_BAD_FS
          /\ last.errargs = << FatVal(Disk(img).vals, c) >>
          /\ file.data.cur_cluster = c
          /\ c = chain[Len(chain)]
          /\ file.data.cur_cluster_num = Len(chain) - 1

\* A read that delivered chunks and then met the link 0 of the chain
\* 8 -> 9 -> 0.
C6_Witness ==
  /\ last.op = "read"
  /\ BadLinkReads # {}
  /\ last.buf # <<>>
  /\ last.errargs = <<0>>
  /\ last.ret = -1

\* C7: when the chain ends before len bytes are delivered, the read
\* returns the bytes delivered so far -- the chunks already copied,
\* between 0 and len -- sets no error and leaves the cursor on the last
\* cluster of the chain.
C7_ShortReadAtEndOfChain ==
  LET im == Disk(img)
      chain == RefChain(im, Start).clusters
  IN  (/\ last.op = "read" /\ NoFault
       /\ RefChain(im, Start).end = "eof"
       /\ last.offset + last.len > RefChainBytes(im, Start))
      =>
      /\ last.ret = Max0(RefChainBytes(im, Start) - last.offset)
      /\ last.ret = SumSizes(last.buf)
      /\ last.ret >= 0 /\ last.ret < last.len
      /\ grub_errno = GRUB_ERR_NONE
      /\ file.data.cur_cluster = chain[Len(chain)]
      /\ file.data.cur_cluster_num = Len(chain) - 1
      /\ last.log[Len(last.log)].kind = "fat"
      /\ FatVal(im.vals, last.log[Len(last.log)].cluster) >= im.eof

\* A read that delivered part of what was asked and stopped at the end of
\* a chain of more than one cluster.
C7_Witness ==
  /\ last.op = "read" /\ NoFault
  /\ RefChain(Disk(img), Start).end = "eof"
  /\ Len(RefChain(Disk(img), Start).clusters) > 1
  /\ last.offset + last.len > RefChainBytes(Disk(img), Start)
  /\ last.ret > 0
  /\ grub_errno = GRUB_ERR_NONE

(***************************************************************************)
(* The image's own account of its tree: which of the paths tried name a    *)
(* directory, which have a component no directory holds, and what each     *)
(* directory lists (names as the driver produces them: the long name where *)
(* one is stored, the lowered 8.3 name otherwise).                         *)
(***************************************************************************)
HoldsTree == img \in {"fat12", "fat16", "fat32"}

PathsToRoot == { <<>>, <<47>>, <<47, 100, 47, 46, 46, 47>> }
PathsToD == { <<47, 100>>, <<47, 100, 47>> }
PathsToDirectory == PathsToRoot \cup PathsToD
PathsWithMissingComponent ==
  { <<47, 110, 111>>, <<47, 110, 111, 47, 120>> }

Entry(name, isdir) == [name |-> name, dir |-> isdir]

RootListing ==
  << Entry(<<104, 105, 46, 116>>, FALSE), Entry(<<65, 98>>, FALSE),
     Entry(<<100>>, TRUE), Entry(<<107>>, FALSE), Entry(<<108>>, FALSE),
     Entry(<<122>>, FALSE), Entry(<<114>>, FALSE) >>
DListing ==
  << Entry(<<46>>, TRUE), Entry(<<46, 46>>, TRUE), Entry(<<120>>, FALSE) >>

Listing(path) == IF path \in PathsToD THEN DListing ELSE RootListing

\* What the hook was called with.
Calls ==
  [i \in 1..Len(last.calls) |->
     Entry(last.calls[i].name, last.calls[i].dir # 0)]

\* The calls a hook that stops at its stopAt-th call (0: never) is to get.
Expected(listing, stopAt) ==
  IF stopAt = 0 \/ stopAt > Len(listing) THEN listing
  ELSE SubSeq(listing, 1, stopAt)

\* C8: open fails with BAD_FILE_TYPE and returns no file for every path
\* whose terminal entry is a directory: a subdirectory, a path with a
\* trailing '/', the empty or all-slash path.
C8_OpenRejectsDirectory ==
  (last.op = "open" /\ HoldsTree /\ NoFault
     /\ last.path \in PathsToDirectory)
  => (~file.open /\ grub_errno = GRUB_ERR_BAD_FILE_TYPE)

\* C9: in open and in dir, with or without a hook, a path with a
\* non-empty component that no entry of the scanned directory matches
\* fails with FILE_NOT_FOUND.
C9_MissingComponentNotFound ==
  (last.op \in {"open", "dir"} /\ HoldsTree /\ NoFault
     /\ last.path \in PathsWithMissingComponent)
  => grub_errno = GRUB_ERR_FILE_NOT_FOUND

\* C10: dir with a hook, for a path that names an existing directory with
\* or without a trailing '/', calls the hook once for each accepted entry
\* of that directory, in on-disk order, with its name and directory flag,
\* never again after the hook says stop, and returns without error.
C10_DirListsNamedDirectory ==
  (last.op = "dir" /\ last.hook /\ HoldsTree /\ NoFault
     /\ last.path \in PathsToDirectory)
  => /\ Calls = Expected(Listing(last.path), last.stopAt)
     /\ grub_errno = GRUB_ERR_NONE

(***************************************************************************)
(* The mount.  The handle grub_fat_mount returned to the operation that    *)
(* has just run is last.mounted; the boot sector it was computed from is   *)
(* the image's.                                                            *)
(***************************************************************************)
\* The last operation mounted the volume and got a handle.
GotHandle ==
  last.op \in {"open", "dir", "label"} /\ last.mounted # NoData

\* The end-of-chain mark of a variant.
EofMarkOf(fat_size) ==
  IF fat_size = 12 THEN 4088 ELSE IF fat_size = 16 THEN 65528 ELSE 268435448

\* The variant by cluster count first: 12 up to 4085 + 2 clusters, then 16
\* with a 16-bit FAT length in the boot sector, 32 without.
VariantByCount(bpb, num_clusters) ==
  IF ULe(num_clusters, 4085 + 2) THEN 12
  ELSE IF bpb.sectors_per_fat_16 # 0 THEN 16 ELSE 32

\* C11: for every volume that mounts, fat_size is decided by cluster
\* count first (12 up to 4087 clusters, else 16 if sectors_per_fat_16 is
\* not 0, else 32), and cluster_eof_mark and root_cluster are those of the
\* variant chosen.
C11_VariantByClusterCount ==
  GotHandle =>
    LET d == last.mounted
        bpb == Disk(img).bpb
    IN  /\ d.fat_size = VariantByCount(bpb, d.num_clusters)
        /\ d.cluster_eof_mark = EofMarkOf(d.fat_size)
        /\ d.root_cluster = IF d.fat_size = 32 THEN bpb.root_cluster ELSE -1

\* C12: every handle a mount returns has fat_sector < num_sectors and
\* cluster_sector < num_sectors.
C12_SectorsInsideVolume ==
  GotHandle =>
    /\ ULt(last.mounted.fat_sector, last.mounted.num_sectors)
    /\ ULt(last.mounted.cluster_sector, last.mounted.num_sectors)

(***************************************************************************)
(* The boot sector's own account of the volume: its geometry in 512-byte   *)
(* sectors, computed from the fields as the format defines them.           *)
(***************************************************************************)
IsPowerOfTwo(x) == \E k \in 0..16 : x = 2 ^ k
Log2(x) == CHOOSE k \in 0..16 : x = 2 ^ k

\* 512-byte sectors in one logical sector
RefSectorScale(bpb) == bpb.bytes_per_sector \div 512
RefSectorsPerFat(bpb) ==
  IF bpb.sectors_per_fat_16 # 0 THEN bpb.sectors_per_fat_16
  ELSE bpb.sectors_per_fat_32
RefTotalSectors(bpb) ==
  IF bpb.num_total_sectors_16 # 0 THEN bpb.num_total_sectors_16
  ELSE bpb.num_total_sectors_32
RefRootSector(bpb) ==
  (bpb.num_reserved_sectors + bpb.num_fats * RefSectorsPerFat(bpb))
  * RefSectorScale(bpb)
RefRootSectors(bpb) ==
  ((bpb.num_root_entries * 32 + bpb.bytes_per_sector - 1)
   \div bpb.bytes_per_sector) * RefSectorScale(bpb)
RefClusterSector(bpb) == RefRootSector(bpb) + RefRootSectors(bpb)
\* 512-byte sectors in one cluster
RefClusterSectors(bpb) == bpb.sectors_per_cluster * RefSectorScale(bpb)
\* num_clusters, in grub_uint32_t arithmetic
RefNumClusters(bpb) ==
  Add32(Shr32(Sub32(RefTotalSectors(bpb) * RefSectorScale(bpb),
                    RefClusterSector(bpb)),
              Log2(RefClusterSectors(bpb))),
        2)
\* The variant the driver takes the volume for (see C11).
RefFatSize(bpb) ==
  IF bpb.sectors_per_fat_16 = 0 THEN 32
  ELSE IF ULe(RefNumClusters(bpb), 4085 + 2) THEN 12 ELSE 16
\* Entry 0 of the FAT, in the width of the variant, is magic | media.
RefFatIdOk(im, fat_size) ==
  LET entry0 == FatVal(im.fats[1].vals, 0)
  IN  CASE fat_size = 12 -> entry0 % 4096 = 3840 + im.bpb.media
        [] fat_size = 16 -> entry0 % 65536 = 65280 + im.bpb.media
        [] OTHER -> entry0 % 268435456 = 268435200 + im.bpb.media

\* The conditions of a mount.
Mountable(im) ==
  /\ IsPowerOfTwo(im.bpb.bytes_per_sector) /\ im.bpb.bytes_per_sector >= 512
  /\ IsPowerOfTwo(im.bpb.sectors_per_cluster)
  /\ im.bpb.num_fats >= 1
  /\ RefSectorsPerFat(im.bpb) > 0
  /\ ULt(2, RefNumClusters(im.bpb))
  /\ RefFatSize(im.bpb) = 32 =>
        im.bpb.num_root_entries = 0 /\ im.bpb.fs_version = 0
  /\ RefFatIdOk(im, RefFatSize(im.bpb))

\* C13: mount returns a handle only if bytes_per_sector is a power of two
\* >= 512, sectors_per_cluster is a power of two, num_fats >= 1,
\* sectors_per_fat > 0, num_clusters > 2, on FAT32 num_root_entries and
\* fs_version are 0, and FAT entry 0 in the variant's width is
\* magic | media; in every other case the operation gets no handle, the
\* tentative handle is freed and the error is BAD_FS.
C13_MountOnlyIfSane ==
  last.op \in {"open", "dir", "label"} =>
    /\ last.mounted # NoData => Mountable(Disk(img))
    /\ ~Mountable(Disk(img)) =>
         /\ last.mounted = NoData
         /\ grub_errno = GRUB_ERR_BAD_FS
         /\ live = last.live0
         /\ ~file.open

\* An open on the volume with sectors of 513 bytes has failed.
C13_Witness ==
  /\ last.op = "open"
  /\ Disk(img).bpb.bytes_per_sector = 513
  /\ last.mounted = NoData
  /\ grub_errno = GRUB_ERR_BAD_FS
  /\ live = last.live0

(***************************************************************************)
(* Long names.  last.produced holds each long name the scanner took from   *)
(* unibuf, with the short record it was attached to and the slot records   *)
(* copied into unibuf since the last start marker.                         *)
(***************************************************************************)
\* The 13 code units of the slot records rs, last record first.
RECURSIVE UnitsOf(_)
UnitsOf(rs) ==
  IF rs = <<>> THEN <<>>
  ELSE UnitsOf(Tail(rs)) \o long_name_units(Head(rs))

\* C14: whenever the scanner produces a long name L for a short entry S,
\* the slots copied into L are N >= 1 records accepted since the record
\* with the 0x40 start marker, with ids N, N-1, ..., 1 in that order
\* (N = id & 0x3F of the marked record), each carrying the checksum
\* sum8dot3 of S's 11-byte name, so that L is the N * 13 code units of
\* that group.
C14_LongNameFromOneGroup ==
  last.op \in {"open", "dir"} =>
    \A k \in 1..Len(last.produced) :
      LET p == last.produced[k]
          N == p.slots
      IN  /\ N >= 1
          /\ Len(p.accepted) = N
          /\ p.accepted[1][1] = 64 + N
          /\ \A i \in 2..N : p.accepted[i][1] = N - i + 1
          /\ \A i \in 1..N :
                /\ p.accepted[i][12] = GRUB_FAT_ATTR_LONG_NAME
                /\ p.accepted[i][14] = FmtSum(SubSeq(p.short, 1, 11), 0)
          /\ p.name = CString(grub_utf16_to_utf8(UnitsOf(p.accepted), 0))

\* A listing has produced a long name of two slots whose second slot
\* came after the record of another file.
C14_Witness ==
  /\ last.op = "dir"
  /\ \E k \in 1..Len(last.produced) :
        /\ last.produced[k].slots = 2
        /\ SubSeq(last.produced[k].short, 1, 11) = LfnNames.INT_1
        /\ Len(last.produced[k].name) = 14
        /\ \E c \in 1..Len(last.calls) :
              last.calls[c].name = last.produced[k].name

\* The error the device set when the i-th device read of the last
\* operation failed.
DeviceError(i) ==
  IF i = last.failAt THEN GRUB_ERR_READ_ERROR ELSE GRUB_ERR_OUT_OF_RANGE

\* C15: in every operation, when a device read fails the operation stops
\* there and the error it reports is the device's own, not BAD_FS,
\* FILE_NOT_FOUND or another error of the driver.
C15_DeviceErrorUnchanged ==
  last.op \in {"open", "read", "dir", "label"} =>
    \A i \in 1..Len(last.log) :
      ~last.log[i].ok =>
        /\ i = Len(last.log)
        /\ grub_errno = DeviceError(i)

\* The first 512-byte sector of the active FAT, as the boot sector gives
\* it: the reserved sectors, and on FAT32 with bit 7 of extended_flags set
\* the FATs before the active one.
RefFatSector(bpb) ==
  bpb.num_reserved_sectors * RefSectorScale(bpb)
  + (IF bpb.sectors_per_fat_16 = 0 /\ HasBit(bpb.extended_flags, 128)
     THEN (bpb.extended_flags % 16) * RefSectorsPerFat(bpb)
          * RefSectorScale(bpb)
     ELSE 0)

\* C16: for every volume that mounts, the fat_sector of the handle is the
\* exact first sector of the active FAT, and the probe of FAT entry 0 and
\* every later FAT read are issued at that sector.
C16_FatSectorExact ==
  GotHandle =>
    /\ last.mounted.fat_sector = RefFatSector(Disk(img).bpb)
    /\ \A i \in 1..Len(last.log) :
         last.log[i].kind \in {"fatid", "fat"} =>
           last.log[i].sector = RefFatSector(Disk(img).bpb)

\* The entry of cluster c in the FAT of the image, decoded as the format
\* defines it: the low 28 bits of the word on FAT32, the 16- or 12-bit
\* entry otherwise.
RefNext(im, c) ==
  IF im.fats[1].bits = 32 THEN FatVal(im.vals, c) % 268435456
  ELSE FatVal(im.vals, c)

\* C17: for every variant and every current cluster c, the value the
\* walker compares with cluster_eof_mark and num_clusters is the entry of
\* c decoded as the format defines it (FAT32: the low 28 bits of the
\* 32-bit word at c * 4).
C17_NextClusterDecoded ==
  last.op \in {"open", "read", "dir", "label"} =>
    \A i \in 1..Len(last.walked) :
      last.walked[i].next = RefNext(Disk(img), last.walked[i].cluster)

\* The paths whose last component is the 8.3 name of the entry that has
\* the long name "Ab".
PathsByShortName == { <<47, 97, 98, 126, 49>> }
PathsByLongName == { <<47, 65, 98>> }

\* C18: each accepted short entry has one produced name, the long name
\* where a complete group with its checksum precedes it and the 8.3 name
\* otherwise, and a component resolves to an entry only if it equals that
\* name: the entry "Ab" is found by "Ab" and not by its 8.3 name "ab~1".
C18_OneNamePerEntry ==
  (last.op = "open" /\ HoldsTree /\ NoFault) =>
    /\ last.path \in PathsByLongName =>
         file.open /\ file.data.file_cluster = 3
    /\ last.path \in PathsByShortName =>
         ~file.open /\ grub_errno = GRUB_ERR_FILE_NOT_FOUND

\* The size of a cluster of a handle as the handle's cluster_bits gives it
\* (cluster_bits counts 512-byte sectors), in bytes and in 512-byte sectors.
ClusterBytesOf(data) == 2 ^ (data.cluster_bits + GRUB_DISK_SECTOR_BITS)
ClusterStartOf(data, c) == data.cluster_sector + (c - 2) * 2 ^ data.cluster_bits

\* C19: on every mounted volume, sectors larger than 512 bytes included,
\* a cluster is 1 << (cluster_bits + 9) bytes: num_clusters is
\* ((num_sectors - cluster_sector) >> cluster_bits) + 2, which is the
\* volume's own cluster count, and the bytes of cluster c are read at
\* 512-byte sector cluster_sector + ((c - 2) << cluster_bits), within
\* the cluster, where the volume stores them.
C19_ClusterGeometry ==
  GotHandle =>
    /\ last.mounted.num_clusters =
         Add32(Shr32(Sub32(last.mounted.num_sectors,
                           last.mounted.cluster_sector),
                     last.mounted.cluster_bits), 2)
    /\ ClusterBytesOf(last.mounted) = Disk(img).cluster_bytes
    /\ \A i \in 1..Len(last.log) :
         last.log[i].kind = "data" =>
           /\ last.log[i].sector =
                ClusterStartOf(last.mounted, last.log[i].cluster)
           /\ last.log[i].sector * 512 =
                Disk(img).cluster_at
                + (last.log[i].cluster - 2) * Disk(img).cluster_bytes
           /\ last.log[i].offset + last.log[i].size
                <= ClusterBytesOf(last.mounted)

\* The cluster reached from cluster c by following n links of the
\* volume's FAT.
RECURSIVE RefFollow(_, _, _)
RefFollow(im, c, n) == IF n = 0 THEN c ELSE RefFollow(im, RefNext(im, c), n - 1)

\* A cursor that is valid points n links behind the handle's file_cluster.
CursorOnChain(im, data) ==
  data.cur_cluster_num # -1 =>
    /\ data.cur_cluster_num >= 0
    /\ data.cur_cluster =
         RefFollow(im, data.file_cluster, data.cur_cluster_num)

\* The logical cluster a read of the open file starts at.
TargetCluster == last.offset \div Disk(img).cluster_bytes

\* C20: a cursor that is not the invalid marker is cur_cluster_num FAT
\* links behind the current file_cluster; the cursor is the invalid marker
\* right after mount and after every resolver step; within one read the
\* cursor index goes up one link at a time, and a read through the cluster
\* chain whose target lies below the cursor index starts again from
\* (0, file_cluster).
C20_CursorInvariant ==
  /\ file.open => CursorOnChain(Disk(img), file.data)
  /\ GotHandle => last.mounted.cur_cluster_num = -1
  /\ last.op \in {"open", "dir"} =>
       \A i \in 1..Len(last.steps) : last.steps[i].cur_cluster_num = -1
  /\ last.op = "open" /\ file.open => file.data.cur_cluster_num = -1
  /\ last.op = "read" /\ last.before.file_cluster # -1 =>
       /\ \A i \in 1..Len(last.walked) :
            /\ last.walked[i].cluster =
                 RefFollow(Disk(img), last.before.file_cluster,
                           last.walked[i].num)
            /\ i > 1 => last.walked[i].num = last.walked[i - 1].num + 1
       /\ last.walked # <<>> =>
            last.walked[1].num =
              IF ULt(TargetCluster, last.before.cur_cluster_num)
              THEN 0 ELSE last.before.cur_cluster_num
       /\ ULt(TargetCluster, last.before.cur_cluster_num) =>
            /\ file.data.cur_cluster_num # -1
            /\ file.data.cur_cluster_num <= TargetCluster + Len(last.walked)
       /\ ~ULt(TargetCluster, last.before.cur_cluster_num) =>
            file.data.cur_cluster_num >= last.before.cur_cluster_num

\* A read that finds the cursor an earlier read left beyond its target,
\* starts again at file_cluster and walks forward to a later cluster.
C20_Witness ==
  /\ last.op = "read" /\ file.open
  /\ last.before.file_cluster # -1
  /\ last.before.cur_cluster_num > 0
  /\ TargetCluster < last.before.cur_cluster_num
  /\ Len(last.walked) >= 2
  /\ last.walked[1].num = 0
  /\ file.data.cur_cluster_num > TargetCluster
  /\ file.data.cur_cluster # file.data.file_cluster

\* C21: when open, dir or label returns, every buffer its resolver steps
\* allocated -- the component name, the UTF-8 filename buffer and the
\* UTF-16 long-name buffer -- has been freed, whatever the exit of each
\* step (match, end of directory, hook stop, read error), so the memory
\* held does not grow with the number of components resolved.
C21_ResolverBuffersFreed ==
  last.op \in {"open", "dir", "label"} =>
    /\ last.bufs.dirname = 0
    /\ last.bufs.filename = 0
    /\ last.bufs.unibuf = 0

====
